---------------------------- MODULE Spec2Model ----------------------------
(***************************************************************************)
(* Transfusion timing predictor and donor-exclusion matching engine of the *)
(* thalassemia-care module (backend/ml/transfusion_predictor.py,           *)
(* backend/ml/model_manager.py, backend/routes/thal_ml.py,                 *)
(* backend/routes/thal.py, backend/utils/matching.py).                     *)
(*                                                                         *)
(* The module holds several specifications over disjoint groups of         *)
(* variables; a specification pins the variables it does not use.          *)
(*   MatchSpec   : DonorMatchingEngine (constructor, match).               *)
(*   CompatSpec  : lookups in the two blood compatibility tables.          *)
(*   RankSpec    : the scoring and ranking block of match (lines 321-338). *)
(*   PredictSpec : TransfusionTimingModel (fit, predict).                  *)
(*   Spec        : ThalModelManager behind the /thal/ml routes.            *)
(*   FeatureSpec : FeatureEngineer (build_features and for_prediction).    *)
(*   ParamsSpec  : the feature row of predict_from_params.                 *)
(*   AlertSpec   : PatientAlertSystem (run_daily_batch) and the tiers.     *)
(*   FacadeSpec  : the methods of ThalModelManager, one call at a time.    *)
(*   ThreadSpec  : the manager's statements on two threads of the pool.    *)
(*   ThalSpec    : get_thal_matches and assign_thal_donor on the tables.   *)
(*                                                                         *)
(* Conventions.  Dates are day numbers.  A nullable date is a sequence:    *)
(* <<>> is null (NaT), <<d>> is the date d.  A DataFrame is the sequence   *)
(* of its rows, each row a record.  Floating-point values are exact        *)
(* rationals <<numerator, denominator>> with a positive denominator.       *)
(***************************************************************************)
EXTENDS Integers, Sequences, FiniteSets, TLC

VARIABLES
    history,        \* transfusion_history_df the engine was constructed from
    exclusion_map,  \* DonorMatchingEngine.exclusion_map
    pool,           \* the donors_df handed to match
    call,           \* the last call on the engine and what it returned
    compat,         \* the last blood compatibility lookup and its answers
    rank,           \* a frame at line 321 of match and what lines 321-338 made of it
    is_fitted,      \* TransfusionTimingModel.is_fitted
    model_parts,    \* which of the timing model's other fields a fit has set
    pred,           \* the predict call on the timing model since its last fit
    feat,           \* frames handed to the feature engineer and what it made of them
    mgr,            \* the ThalModelManager singleton: its fields
    disk,           \* the file at MODEL_PATH
    last_recorded,  \* the (patient, donor) of the last transfusion reported recorded
    resp,           \* the last /thal/ml request and its response
    alerts,         \* a batch handed to the alert system and the alerts it made
    threads,        \* the handlers the server is running: where each one is, what it holds
    db              \* the tables behind the /thal routes

engineVars == <<history, exclusion_map, pool, call>>
modelVars == <<is_fitted, model_parts, pred>>
managerVars == <<mgr, disk, last_recorded, resp>>
serverVars == <<threads, db>>

vars == <<engineVars, compat, rank, modelVars, managerVars, feat, alerts, serverVars>>

-----------------------------------------------------------------------------
(* Bounds of the model.                                                    *)

MaxHistory == 2     \* transfusion-event rows in a history
MaxTopN == 2        \* largest top_n a caller asks for
MaxDonations == 2   \* largest total_donations of a donor row
MaxHalfDays == 32   \* largest regressor output, in half days
MaxStdHalf == 5     \* largest spread of the trees' predictions, in half days
MaxSnapshotTx == 1  \* transfusion-event rows in a generated snapshot
MaxCalls == 2       \* calls of the ranking block on one frame
MaxEvents == 3      \* transfusion events in a history handed to build_features

-----------------------------------------------------------------------------
(* Data domains.                                                           *)

PatientIds == {"PT0000", "PT0001"}
UnknownPatient == "PT9999"
DonorIds == {"DN0000", "DN0001"}

\* generate_synthetic_data's blood_types list; the keys of both tables.
BloodTypes == {"O-", "O+", "A-", "A+", "B-", "B+", "AB-", "AB+"}
UnknownBloodType == "Bombay"

NoDate == <<>>
isna(date) == date = <<>>

Min(a, b) == IF a <= b THEN a ELSE b
Max(a, b) == IF a >= b THEN a ELSE b

RECURSIVE Gcd(_, _)
Gcd(a, b) == IF b = 0 THEN a ELSE Gcd(b, a % b)

Abs(a) == IF a < 0 THEN -a ELSE a

\* Exact rationals <<n, d>>, d > 0, for the float arithmetic of the scores;
\* sums and products are kept in lowest terms.
RNorm(x) ==
    LET g == Gcd(Abs(x[1]), x[2])
    IN <<x[1] \div g, x[2] \div g>>
RAdd(x, y) == RNorm(<<x[1] * y[2] + y[1] * x[2], x[2] * y[2]>>)
RMul(x, y) == RNorm(<<x[1] * y[1], x[2] * y[2]>>)
REq(x, y) == x[1] * y[2] = y[1] * x[2]
RLess(x, y) == x[1] * y[2] < y[1] * x[2]

\* All orderings of a finite set, as sequences without repetition.
Perms(S) ==
    {s \in [1..Cardinality(S) -> S] : \A i, j \in DOMAIN s : i # j => s[i] # s[j]}

-----------------------------------------------------------------------------
(* Blood compatibility tables: recipient type -> donor types accepted.     *)

\* transfusion_predictor.BLOOD_TYPE_COMPATIBILITY
BLOOD_TYPE_COMPATIBILITY ==
    [r \in BloodTypes |->
        CASE r = "O-"  -> {"O-"}
          [] r = "O+"  -> {"O-", "O+"}
          [] r = "A-"  -> {"O-", "A-"}
          [] r = "A+"  -> {"O-", "O+", "A-", "A+"}
          [] r = "B-"  -> {"O-", "B-"}
          [] r = "B+"  -> {"O-", "O+", "B-", "B+"}
          [] r = "AB-" -> {"O-", "A-", "B-", "AB-"}
          [] r = "AB+" -> {"O-", "O+", "A-", "A+", "B-", "B+", "AB-", "AB+"}]

\* utils.matching._COMPATIBLE
COMPATIBLE ==
    [r \in BloodTypes |->
        CASE r = "A+"  -> {"A+", "A-", "O+", "O-"}
          [] r = "A-"  -> {"A-", "O-"}
          [] r = "B+"  -> {"B+", "B-", "O+", "O-"}
          [] r = "B-"  -> {"B-", "O-"}
          [] r = "AB+" -> {"A+", "A-", "B+", "B-", "AB+", "AB-", "O+", "O-"}
          [] r = "AB-" -> {"A-", "B-", "AB-", "O-"}
          [] r = "O+"  -> {"O+", "O-"}
          [] r = "O-"  -> {"O-"}]

\* BLOOD_TYPE_COMPATIBILITY.get(patient_blood_type, [])
compatible_types_for(patient_blood_type) ==
    IF patient_blood_type \in DOMAIN BLOOD_TYPE_COMPATIBILITY
    THEN BLOOD_TYPE_COMPATIBILITY[patient_blood_type]
    ELSE {}

\* A plausible slip: the table read as donor type -> recipient types.
engine_accepts_transposed(donor_type, recipient_type) ==
    recipient_type \in compatible_types_for(donor_type)

\* donors_df["blood_type"].isin(compatible_types), for one row
engine_accepts(donor_type, recipient_type) ==
    donor_type \in compatible_types_for(recipient_type)

\* utils.matching.blood_compatible
blood_compatible(donor_group, recipient_group) ==
    donor_group \in (IF recipient_group \in DOMAIN COMPATIBLE
                     THEN COMPATIBLE[recipient_group]
                     ELSE {})

-----------------------------------------------------------------------------
(* DonorMatchingEngine.                                                    *)

COOLDOWN_DAYS == 56     \* the 56 of line 314
CLIP_LOW == 56          \* clip(56, 365), line 330
CLIP_HIGH == 365
FILL_DAYS == 999        \* fillna(999), line 324

\* A slip of the grouping: a dict comprehension {patient: donor}, which keeps
\* only the donor of each patient's last row.
exclusion_map_last_donor(transfusion_history_df) ==
    LET rows == DOMAIN transfusion_history_df
        patients == {transfusion_history_df[i].patient_id : i \in rows}
        last(p) == CHOOSE i \in rows :
                      /\ transfusion_history_df[i].patient_id = p
                      /\ \A j \in rows :
                            transfusion_history_df[j].patient_id = p => j <= i
    IN [p \in patients |-> {transfusion_history_df[last(p)].donor_id}]

\* __init__: groupby("patient_id")["donor_id"].apply(set).to_dict()
build_exclusion_map(transfusion_history_df) ==
    LET rows == DOMAIN transfusion_history_df
        patients == {transfusion_history_df[i].patient_id : i \in rows}
    IN [p \in patients |->
           {transfusion_history_df[i].donor_id :
               i \in {j \in rows : transfusion_history_df[j].patient_id = p}}]

\* A lookup that forgets the patient: every donor some patient received.
get_excluded_donors_of_anyone(exmap, patient_id) ==
    UNION {exmap[p] : p \in DOMAIN exmap}

\* get_excluded_donors: exclusion_map.get(patient_id, set())
get_excluded_donors(exmap, patient_id) ==
    IF patient_id \in DOMAIN exmap THEN exmap[patient_id] ELSE {}

\* (now - last_donation_date).dt.days of a row whose date is not null
days_since(row, now) == now - row.last_donation_date[1]

\* The last mask of the filter (lines 312-315) is written
\*     isna() | (now - last_donation_date).dt.days >= 56
\* In Python "|" binds tighter than ">=", so the expression is
\*     (isna() | (now - last_donation_date).dt.days) >= 56.
\* The "|" of a boolean column with a day-count column is a boolean column
\* (pandas casts the result of a logical operator on a boolean left operand
\* to bool: true where the date is null or the day count is not 0; a NaN day
\* count counts as false).
isna_or_days(row, now) ==
    IF isna(row.last_donation_date) THEN TRUE ELSE days_since(row, now) # 0

\* The comparison of that boolean column with 56 compares True (1) and
\* False (0) with 56.
bool_as_int(b) == IF b THEN 1 ELSE 0

\* A filter without the cool-down mask.
cooldown_mask_absent(row, now) == TRUE

cooldown_mask(row, now) == bool_as_int(isna_or_days(row, now)) >= COOLDOWN_DAYS

\* The boolean mask of lines 308-316, for one row.
eligible_mask(row, compatible_types, excluded, now) ==
    /\ row.blood_type \in compatible_types
    /\ ~(row.donor_id \in excluded)
    /\ row.is_available = TRUE
    /\ cooldown_mask(row, now)

\* Lines 322-324: day count of each eligible row, null filled with 999.
days_since_last_donation(row, now) ==
    IF isna(row.last_donation_date) THEN FILL_DAYS ELSE days_since(row, now)

clip(x, lo, hi) == IF x < lo THEN lo ELSE IF x > hi THEN hi ELSE x

\* The score formula with the weights of experience and recency exchanged.
score_weights_swapped(row, max_donations, now) ==
    IF max_donations > 0
    THEN RAdd(RAdd(RMul(<<3, 10>>, <<row.total_donations, max_donations>>),
                   RMul(<<4, 10>>,
                        <<clip(days_since_last_donation(row, now), CLIP_LOW, CLIP_HIGH),
                          CLIP_HIGH>>)),
              RMul(<<3, 10>>, <<1, 1>>))
    ELSE <<5, 10>>

\* Lines 326-334: the score of one eligible row.
score(row, max_donations, now) ==
    IF max_donations > 0
    THEN RAdd(RAdd(RMul(<<4, 10>>, <<row.total_donations, max_donations>>),
                   RMul(<<3, 10>>,
                        <<clip(days_since_last_donation(row, now), CLIP_LOW, CLIP_HIGH),
                          CLIP_HIGH>>)),
              RMul(<<3, 10>>, <<1, 1>>))
    ELSE <<5, 10>>

\* eligible["total_donations"].max()
max_total_donations(eligible) ==
    CHOOSE m \in {eligible[i].total_donations : i \in DOMAIN eligible} :
        \A i \in DOMAIN eligible : eligible[i].total_donations <= m

\* The row of the result: the six columns of line 337.
ranked_row(row, max_donations, now) ==
    [donor_id |-> row.donor_id, blood_type |-> row.blood_type,
     score |-> score(row, max_donations, now),
     is_available |-> row.is_available,
     last_donation_date |-> row.last_donation_date,
     total_donations |-> row.total_donations]

\* The default sort of sort_values is not stable: in which order rows of
\* equal score come out depends on the sort routine of the build, and is the
\* same on every call of one build.  A build's routine is a tie order, a
\* sequence of the row positions: of two rows of equal score the one whose
\* position comes first in it comes out first.
TieOrders(n) == Perms(1..n)

place(tie_order, i) == CHOOSE k \in DOMAIN tie_order : tie_order[k] = i

\* A sort that orders by ascending score.
sorted_by_score_ascending(scored, tie_order) ==
    LET before(i, j) ==
            \/ RLess(scored[i].score, scored[j].score)
            \/ /\ REq(scored[i].score, scored[j].score)
               /\ place(tie_order, i) < place(tie_order, j)
        perm == CHOOSE q \in Perms(DOMAIN scored) :
                    \A a, b \in DOMAIN scored : a < b => before(q[a], q[b])
    IN [i \in DOMAIN scored |-> scored[perm[i]]]

\* sort_values("score", ascending=False)
sorted_by_score(scored, tie_order) ==
    LET before(i, j) ==
            \/ RLess(scored[j].score, scored[i].score)
            \/ /\ REq(scored[i].score, scored[j].score)
               /\ place(tie_order, i) < place(tie_order, j)
        perm == CHOOSE q \in Perms(DOMAIN scored) :
                    \A a, b \in DOMAIN scored : a < b => before(q[a], q[b])
    IN [i \in DOMAIN scored |-> scored[perm[i]]]

\* DataFrame.head(n), n >= 0
head(frame, n) == SubSeq(frame, 1, Min(n, Len(frame)))

\* Lines 321-338: what match returns for a non-empty eligible frame.
score_and_rank(eligible, top_n, now, tie_order) ==
    LET max_donations == max_total_donations(eligible)
        scored == [i \in DOMAIN eligible |->
                      ranked_row(eligible[i], max_donations, now)]
    IN head(sorted_by_score(scored, tie_order), top_n)

\* Lines 305-316: the eligible frame.
filter_eligible(exmap, patient_id, patient_blood_type, donors_df, now) ==
    LET excluded == get_excluded_donors(exmap, patient_id)
        compatible_types == compatible_types_for(patient_blood_type)
    IN SelectSeq(donors_df,
                 LAMBDA row : eligible_mask(row, compatible_types, excluded, now))

\* DonorMatchingEngine.match: the frames it may return, one for each sort
\* routine a build may have; the empty DataFrame of line 319 is <<>>.
match(exmap, patient_id, patient_blood_type, donors_df, top_n, now) ==
    LET eligible == filter_eligible(exmap, patient_id, patient_blood_type,
                                    donors_df, now)
    IN IF eligible = <<>> THEN {<<>>}
       ELSE {score_and_rank(eligible, top_n, now, tie_order) :
                tie_order \in TieOrders(Len(eligible))}

-----------------------------------------------------------------------------
(* MatchSpec: an engine is constructed from a history, and match is        *)
(* applied to a donor pool.                                                *)

\* The two columns of a transfusion-event row the engine reads.
HistoryRows == [patient_id : PatientIds, donor_id : DonorIds]

Today == 400
PoolBloodTypes == {"O-", "AB+"}
\* null, 55 days before Today, 56 days before Today
LastDonationDates == {NoDate, <<345>>, <<344>>}
PoolDonationCounts == {1}

DonorRows(d) ==
    [donor_id : {d}, blood_type : PoolBloodTypes, is_available : BOOLEAN,
     last_donation_date : LastDonationDates, total_donations : PoolDonationCounts]

\* Donor tables: one row per donor id, in id order.
Pools == {<<r0, r1>> : r0 \in DonorRows("DN0000"), r1 \in DonorRows("DN0001")}

MatchPatients == PatientIds \cup {UnknownPatient}
MatchBloodTypes == {"O-", "AB+", UnknownBloodType}

NoCall == [op |-> "none"]

IdleEngine ==
    /\ history = <<>>
    /\ exclusion_map = <<>>
    /\ pool = <<>>
    /\ call = NoCall

IdleCompat == compat = NoCall

IdleRank == rank = NoCall

IdleModel ==
    /\ is_fitted = FALSE
    /\ model_parts = NoCall
    /\ pred = NoCall

IdleFeatures == feat = NoCall

IdleAlerts == alerts = NoCall

IdleManager ==
    /\ mgr = NoCall
    /\ disk = NoCall
    /\ last_recorded = <<>>
    /\ resp = NoCall

IdleServer ==
    /\ threads = NoCall
    /\ db = NoCall

MatchInit ==
    /\ history = <<>>
    /\ exclusion_map = build_exclusion_map(history)
    /\ pool \in Pools
    /\ call = NoCall
    /\ IdleCompat
    /\ IdleRank
    /\ IdleModel
    /\ IdleManager
    /\ IdleFeatures
    /\ IdleAlerts
    /\ IdleServer

\* DonorMatchingEngine(transfusion_history_df) on the history with one more
\* event: the exclusion index is rebuilt, the old engine is dropped.
Construct(row) ==
    /\ Len(history) < MaxHistory
    /\ history' = Append(history, row)
    /\ exclusion_map' = build_exclusion_map(history')
    /\ call' = NoCall
    /\ UNCHANGED <<pool, compat, rank, modelVars, managerVars, feat, alerts, serverVars>>

\* engine.match(patient_id, patient_blood_type, pool, top_n) at time now.
Match(patient_id, patient_blood_type, top_n, now) ==
    /\ call = NoCall
    /\ \E result \in match(exclusion_map, patient_id, patient_blood_type,
                           pool, top_n, now) :
          call' = [op |-> "match", patient_id |-> patient_id,
                   patient_blood_type |-> patient_blood_type,
                   top_n |-> top_n, now |-> now, result |-> result]
    /\ UNCHANGED <<history, exclusion_map, pool, compat, rank, modelVars, managerVars, feat, alerts, serverVars>>

MatchNext ==
    \/ \E row \in HistoryRows : Construct(row)
    \/ \E p \in MatchPatients, bt \in MatchBloodTypes, n \in 0..MaxTopN :
          Match(p, bt, n, Today)

MatchSpec == MatchInit /\ [][MatchNext]_vars

-----------------------------------------------------------------------------
(* The rules the claims are stated in.                                     *)

\* The canonical transfusion matrix: donor type -> recipient types.
CanonicalDonatesTo ==
    [d \in BloodTypes |->
        CASE d = "O-"  -> BloodTypes
          [] d = "O+"  -> {"O+", "A+", "B+", "AB+"}
          [] d = "A-"  -> {"A-", "A+", "AB-", "AB+"}
          [] d = "A+"  -> {"A+", "AB+"}
          [] d = "B-"  -> {"B-", "B+", "AB-", "AB+"}
          [] d = "B+"  -> {"B+", "AB+"}
          [] d = "AB-" -> {"AB-", "AB+"}
          [] d = "AB+" -> {"AB+"}]

CanonicalCompatible(d, r) == d \in BloodTypes /\ r \in CanonicalDonatesTo[d]

\* The donor ids of the transfusion-event rows of patient p in history h.
HistoryDonors(h, p) == {h[i].donor_id : i \in {j \in DOMAIN h : h[j].patient_id = p}}

\* last_donation_date is null or at least 56 days before now
CooldownRule(row, now) ==
    isna(row.last_donation_date) \/ now - row.last_donation_date[1] >= 56

\* The four eligibility conditions.
RuleEligible(row, h, p, bt, now) ==
    /\ CanonicalCompatible(row.blood_type, bt)
    /\ row.donor_id \notin HistoryDonors(h, p)
    /\ row.is_available
    /\ CooldownRule(row, now)

RuleEligibleIds(frame, h, p, bt, now) ==
    {frame[i].donor_id : i \in {j \in DOMAIN frame : RuleEligible(frame[j], h, p, bt, now)}}

ResultIds(result) == {result[i].donor_id : i \in DOMAIN result}

PoolRow(frame, d) == frame[CHOOSE i \in DOMAIN frame : frame[i].donor_id = d]

-----------------------------------------------------------------------------
(* Claims on MatchSpec.                                                    *)

\* C1: the exclusion map holds, for every patient, exactly the donor ids of
\* that patient's transfusion-event rows in the history the engine was built
\* from, and match never returns a donor whose id is among them.
C1_ExcludedNeverMatched ==
    /\ \A p \in MatchPatients :
          get_excluded_donors(exclusion_map, p) = HistoryDonors(history, p)
    /\ DOMAIN exclusion_map = {history[i].patient_id : i \in DOMAIN history}
    /\ call.op = "match" =>
          ResultIds(call.result) \cap HistoryDonors(history, call.patient_id) = {}

\* A match for a patient with two past donors, one of them in the pool and
\* passing every other condition, came back without that donor.
C1_Witness ==
    /\ call.op = "match"
    /\ Cardinality(HistoryDonors(history, call.patient_id)) = 2
    /\ \E i \in DOMAIN pool :
          /\ pool[i].donor_id \in get_excluded_donors(exclusion_map, call.patient_id)
          /\ CanonicalCompatible(pool[i].blood_type, call.patient_blood_type)
          /\ pool[i].is_available
          /\ CooldownRule(pool[i], call.now)
          /\ pool[i].donor_id \notin ResultIds(call.result)

\* C4: every donor match returns is compatible with the recipient type, not
\* excluded for the patient, available, and has a last donation date that is
\* null or at least 56 days before now.
C4_ReturnedDonorsEligible ==
    call.op = "match" =>
        \A d \in ResultIds(call.result) :
            /\ d \in {pool[i].donor_id : i \in DOMAIN pool}
            /\ RuleEligible(PoolRow(pool, d), history, call.patient_id,
                            call.patient_blood_type, call.now)

\* A match over a pool holding a donor who gave 55 days ago and passes the
\* other three conditions came back without that donor.
C4_Witness ==
    /\ call.op = "match"
    /\ \E i \in DOMAIN pool :
          /\ ~isna(pool[i].last_donation_date)
          /\ call.now - pool[i].last_donation_date[1] = 55
          /\ CanonicalCompatible(pool[i].blood_type, call.patient_blood_type)
          /\ pool[i].is_available
          /\ pool[i].donor_id \notin HistoryDonors(history, call.patient_id)
          /\ pool[i].donor_id \notin ResultIds(call.result)

\* C5: match returns min(k, top_n) of the k donors of the pool that pass the
\* four eligibility conditions.
C5_EligibleDonorsReturned ==
    call.op = "match" =>
        LET eligibleIds == RuleEligibleIds(pool, history, call.patient_id,
                                           call.patient_blood_type, call.now)
        IN /\ Len(call.result) = Min(Cardinality(eligibleIds), call.top_n)
           /\ ResultIds(call.result) \subseteq eligibleIds

-----------------------------------------------------------------------------
(* CompatSpec: lookups in the two compatibility tables.                    *)

LookupTypes == BloodTypes \cup {UnknownBloodType, ""}

CompatInit ==
    /\ compat = NoCall
    /\ IdleEngine
    /\ IdleRank
    /\ IdleModel
    /\ IdleManager
    /\ IdleFeatures
    /\ IdleAlerts
    /\ IdleServer

\* blood_compatible(donor_group, recipient_group), and the engine's type
\* mask for a donor of that type and a recipient of that type.
BloodCompatible(donor_group, recipient_group) ==
    /\ compat' = [op |-> "blood_compatible", donor_group |-> donor_group,
                  recipient_group |-> recipient_group,
                  utils |-> blood_compatible(donor_group, recipient_group),
                  engine |-> engine_accepts(donor_group, recipient_group)]
    /\ UNCHANGED <<engineVars, rank, modelVars, managerVars, feat, alerts, serverVars>>

CompatNext ==
    \E d \in LookupTypes, r \in LookupTypes : BloodCompatible(d, r)

CompatSpec == CompatInit /\ [][CompatNext]_vars

\* C3: for every pair of blood types the engine's table and
\* utils.matching.blood_compatible accept donor type d for recipient type r
\* exactly when the canonical transfusion matrix does.
C3_CompatibilityMatrix ==
    compat.op = "blood_compatible" =>
        /\ compat.engine = CanonicalCompatible(compat.donor_group, compat.recipient_group)
        /\ compat.utils = compat.engine

\* A+ offered to a B+ recipient was refused by both tables.
C3_Witness ==
    /\ compat.op = "blood_compatible"
    /\ compat.donor_group = "A+"
    /\ compat.recipient_group = "B+"
    /\ ~compat.engine
    /\ ~compat.utils

-----------------------------------------------------------------------------
(* RankSpec: lines 321-338 of match, applied again and again to a frame of *)
(* rows that passed the filter, by one build.  The frames are the          *)
(* non-empty frames of rows that satisfy the four eligibility conditions   *)
(* at Today.                                                               *)

RankDonorIds == {"DN0000", "DN0001", "DN0002"}
\* null, 56, 200 and 400 days before Today
RankDonationDates == {NoDate, <<344>>, <<200>>, <<0>>}

RankRows(d) ==
    [donor_id : {d}, blood_type : {"O-"}, is_available : {TRUE},
     last_donation_date : RankDonationDates, total_donations : 0..MaxDonations]

\* Frames: at most one row per donor id, in id order, at least one row.
RankFrames ==
    LET opt(d) == {<<>>} \cup {<<r>> : r \in RankRows(d)}
    IN {a \o b \o c : a \in opt("DN0000"), b \in opt("DN0001"), c \in opt("DN0002")}
       \ {<<>>}

RankInit ==
    /\ \E eligible \in RankFrames, top_n \in 0..MaxTopN :
          \E tie_order \in TieOrders(Len(eligible)) :
             rank = [op |-> "score_and_rank", eligible |-> eligible,
                     top_n |-> top_n, now |-> Today, tie_order |-> tie_order,
                     results |-> <<>>]
    /\ IdleEngine
    /\ IdleCompat
    /\ IdleModel
    /\ IdleManager
    /\ IdleFeatures
    /\ IdleAlerts
    /\ IdleServer

\* One more call of lines 321-338 on the frame.
ScoreAndRank ==
    /\ Len(rank.results) < MaxCalls
    /\ rank' = [rank EXCEPT !.results =
                   Append(@, score_and_rank(rank.eligible, rank.top_n,
                                            rank.now, rank.tie_order))]
    /\ UNCHANGED <<engineVars, compat, modelVars, managerVars, feat, alerts, serverVars>>

RankNext == ScoreAndRank

RankSpec == RankInit /\ [][RankNext]_vars

\* The score of the scoring rule: 0.5 when the largest total_donations of
\* the eligible pool is 0, else
\*   0.4*(total_donations/max) + 0.3*(clip(days, 56, 365)/365) + 0.3
\* with a null date counting as 365 days.
RuleScore(row, frame, now) ==
    LET mx == CHOOSE m \in {frame[i].total_donations : i \in DOMAIN frame} :
                 \A i \in DOMAIN frame : frame[i].total_donations <= m
        days == IF isna(row.last_donation_date) THEN 365
                ELSE clip(now - row.last_donation_date[1], 56, 365)
    IN IF mx = 0 THEN <<1, 2>>
       ELSE <<4 * 365 * row.total_donations + 3 * days * mx + 3 * 365 * mx,
              10 * 365 * mx>>

C8_ScoreFormula ==
    \A k \in DOMAIN rank.results :
        \A i \in DOMAIN rank.results[k] :
            LET candidate == rank.results[k][i]
                row == PoolRow(rank.eligible, candidate.donor_id)
            IN /\ REq(candidate.score, RuleScore(row, rank.eligible, rank.now))
               /\ (\A e \in DOMAIN rank.eligible :
                      rank.eligible[e].total_donations = 0)
                    => candidate.score[1] * 2 = candidate.score[2]

\* Two candidates of a pool whose donors all have total_donations = 0 came
\* back, each with score 0.5.
C8_Witness ==
    /\ Len(rank.results) >= 1
    /\ \A e \in DOMAIN rank.eligible : rank.eligible[e].total_donations = 0
    /\ Len(rank.results[1]) = 2
    /\ \A i \in DOMAIN rank.results[1] : REq(rank.results[1][i].score, <<1, 2>>)

-----------------------------------------------------------------------------
(* TransfusionTimingModel.  The two regressors and the spread of the       *)
(* forest's trees are outside the model: predict is given their outputs    *)
(* for the row, rf_pred and gb_pred as rationals and std_dev as a          *)
(* non-negative rational.                                                  *)

FLOOR_DAYS == 5     \* max(5, ...), lines 241 and 245
URGENT_DAYS == 7    \* line 248
SOON_DAYS == 14     \* line 250

\* Python's round(x) of a float: the nearest integer, a tie to the even one.
round(x) ==
    LET q == x[1] \div x[2]
        r == x[1] % x[2]
    IN IF 2 * r < x[2] THEN q
       ELSE IF 2 * r > x[2] THEN q + 1
       ELSE IF q % 2 = 0 THEN q ELSE q + 1

\* The blend without the floor of 5 days.
predicted_days_unfloored(rf_pred, gb_pred) ==
    round(RAdd(RMul(<<6, 10>>, rf_pred), RMul(<<4, 10>>, gb_pred)))

\* Line 241: max(5, round(0.6 * rf_pred + 0.4 * gb_pred))
predicted_days_of(rf_pred, gb_pred) ==
    Max(FLOOR_DAYS, round(RAdd(RMul(<<6, 10>>, rf_pred), RMul(<<4, 10>>, gb_pred))))

\* A band whose lower end is not floored.
confidence_range_unfloored(predicted_days, std_dev) ==
    <<round(RAdd(<<predicted_days, 1>>, <<-std_dev[1], std_dev[2]>>)),
      round(RAdd(<<predicted_days, 1>>, std_dev))>>

\* Lines 245-246: (low, high)
confidence_range(predicted_days, std_dev) ==
    <<Max(FLOOR_DAYS, round(RAdd(<<predicted_days, 1>>, <<-std_dev[1], std_dev[2]>>))),
      round(RAdd(<<predicted_days, 1>>, std_dev))>>

\* Tiers whose first threshold is exclusive.
urgency_below(predicted_days) ==
    IF predicted_days < URGENT_DAYS THEN "URGENT"
    ELSE IF predicted_days <= SOON_DAYS THEN "SOON"
    ELSE "STABLE"

\* Lines 248-253
urgency_of(predicted_days) ==
    IF predicted_days <= URGENT_DAYS THEN "URGENT"
    ELSE IF predicted_days <= SOON_DAYS THEN "SOON"
    ELSE "STABLE"

\* Lines 238-262: what predict returns on a fitted model.
prediction(rf_pred, gb_pred, std_dev, now) ==
    LET predicted_days == predicted_days_of(rf_pred, gb_pred)
    IN [predicted_days |-> predicted_days,
        next_date |-> now + predicted_days,
        urgency |-> urgency_of(predicted_days),
        confidence_range |-> confidence_range(predicted_days, std_dev),
        rf_prediction |-> round(rf_pred),
        gb_prediction |-> round(gb_pred)]

-----------------------------------------------------------------------------
(* PredictSpec: a timing model is fitted and asked for a prediction.       *)

RegressorOutputs == {<<h, 2>> : h \in (-2)..MaxHalfDays}
Spreads == {<<h, 2>> : h \in 0..MaxStdHalf}

\* The steps of fit in the order of lines 189-229, each named by what it
\* sets: the selection and split of the data set nothing.
FitSteps == <<"split", "scaler", "rf_model", "gb_model", "feature_importance",
              "training_metrics", "is_fitted">>
FitParts == {"scaler", "rf_model", "gb_model", "feature_importance", "training_metrics"}

\* TransfusionTimingModel.__init__
new_model == [is_fitted |-> FALSE, parts |-> [part \in FitParts |-> FALSE]]

step_of(name) == CHOOSE k \in DOMAIN FitSteps : FitSteps[k] = name

\* A fit that sets is_fitted before it does anything else.
fit_flag_first(model, raises_at) ==
    LET done(part) == raises_at = "" \/ step_of(part) < step_of(raises_at)
    IN [is_fitted |-> TRUE,
        parts |-> [part \in FitParts |-> model.parts[part] \/ done(part)]]

\* fit (lines 188-229): the model after a fit in which step raises_at
\* raises, or no step does (""); the steps before it have set their fields.
fit(model, raises_at) ==
    LET done(part) == raises_at = "" \/ step_of(part) < step_of(raises_at)
    IN [is_fitted |-> model.is_fitted \/ raises_at = "",
        parts |-> [part \in FitParts |-> model.parts[part] \/ done(part)]]

\* predict (lines 231-262) on a model whose is_fitted is fitted
predict(fitted, rf_pred, gb_pred, std_dev, now) ==
    IF ~fitted
    THEN [op |-> "predict", raised |-> "RuntimeError"]
    ELSE [op |-> "predict", raised |-> "", rf_pred |-> rf_pred,
          gb_pred |-> gb_pred, std_dev |-> std_dev,
          result |-> prediction(rf_pred, gb_pred, std_dev, now)]

PredictInit ==
    /\ is_fitted = new_model.is_fitted
    /\ model_parts = new_model.parts
    /\ pred = NoCall
    /\ IdleEngine
    /\ IdleCompat
    /\ IdleRank
    /\ IdleManager
    /\ IdleFeatures
    /\ IdleAlerts
    /\ IdleServer

\* fit(features_df): is_fitted is set by the last statement (line 229); a fit
\* that raises before it leaves the flag as it was.  The regressors are new,
\* so the prediction of the old ones is dropped.
Fit(raises_at) ==
    /\ LET fitted == fit([is_fitted |-> is_fitted, parts |-> model_parts], raises_at)
       IN /\ is_fitted' = fitted.is_fitted
          /\ model_parts' = fitted.parts
    /\ pred' = NoCall
    /\ UNCHANGED <<engineVars, compat, rank, managerVars, feat, alerts, serverVars>>

\* predict(X) for a row on which the regressors return rf_pred and gb_pred
\* and the trees' predictions have standard deviation std_dev.
Predict(rf_pred, gb_pred, std_dev, now) ==
    /\ pred = NoCall
    /\ pred' = predict(is_fitted, rf_pred, gb_pred, std_dev, now)
    /\ UNCHANGED <<is_fitted, model_parts, engineVars, compat, rank, managerVars, feat, alerts, serverVars>>

PredictNext ==
    \/ \E raises_at \in {""} \cup {FitSteps[k] : k \in DOMAIN FitSteps} :
          Fit(raises_at)
    \/ \E rf \in RegressorOutputs, gb \in RegressorOutputs, sd \in Spreads :
          Predict(rf, gb, sd, Today)

PredictSpec == PredictInit /\ [][PredictNext]_vars

Returned(p) == p.op = "predict" /\ p.raised = ""

\* C9: whatever the two regressors return, predict returns
\* predicted_days = max(5, round(0.6*rf + 0.4*gb)), which is at least 5.
C9_PredictedDaysFloor ==
    Returned(pred) =>
        LET blend == <<6 * pred.rf_pred[1] * pred.gb_pred[2]
                         + 4 * pred.gb_pred[1] * pred.rf_pred[2],
                       10 * pred.rf_pred[2] * pred.gb_pred[2]>>
        IN /\ pred.result.predicted_days >= 5
           /\ pred.result.predicted_days = Max(5, round(blend))

\* Both regressors returned a negative value and predict returned 5 days.
C9_Witness ==
    /\ Returned(pred)
    /\ pred.rf_pred[1] < 0
    /\ pred.gb_pred[1] < 0
    /\ pred.result.predicted_days = 5

\* C10: the confidence range (low, high) of every prediction satisfies
\* 5 <= low <= predicted_days <= high.
C10_ConfidenceBand ==
    Returned(pred) =>
        /\ 5 <= pred.result.confidence_range[1]
        /\ pred.result.confidence_range[1] <= pred.result.predicted_days
        /\ pred.result.predicted_days <= pred.result.confidence_range[2]

\* A prediction of 6 days with a spread of 2 days: the band is (5, 8), its
\* lower end held at 5.
C10_Witness ==
    /\ Returned(pred)
    /\ pred.result.predicted_days = 6
    /\ pred.std_dev = <<4, 2>>
    /\ pred.result.confidence_range = <<5, 8>>

C12_PredictNeedsCompletedFit ==
    /\ [](/\ (pred.op = "predict" /\ ~Returned(pred)) =>
               (/\ pred.raised = "RuntimeError"
                /\ "result" \notin DOMAIN pred
                /\ ~is_fitted)
          /\ Returned(pred) => is_fitted
          /\ is_fitted => \A part \in FitParts : model_parts[part])
    /\ [][/\ (pred' # pred /\ pred'.op = "predict") =>
               (is_fitted' = is_fitted /\ model_parts' = model_parts)
          /\ (~is_fitted /\ is_fitted') =>
               (pred' = NoCall /\ \A part \in FitParts : model_parts'[part])]_vars

\* A fit raised after the forest was trained, and the predict that followed
\* raised: the model is still not fitted.
C12_Witness ==
    /\ pred.op = "predict"
    /\ pred.raised = "RuntimeError"
    /\ model_parts["rf_model"]
    /\ ~model_parts["gb_model"]
    /\ ~is_fitted

-----------------------------------------------------------------------------
(* ThalModelManager behind the /thal/ml routes.  The manager is the record *)
(* of its fields; a field that is None is <<>>, a field that holds x is    *)
(* <<x>>.  The matcher is the engine's exclusion_map together with the     *)
(* history its constructor was given, the feature table the tables it was  *)
(* built from, the alert system the model and the matcher it was           *)
(* constructed with.  A snapshot is the record of the four tables the      *)
(* generator returns.                                                      *)

None == <<>>
Some(x) == <<x>>
the(field) == field[1]

\* The file at MODEL_PATH: absent, not loadable, or a saved artifact.
NoFile == [kind |-> "absent"]
UnreadableFile == [kind |-> "unreadable"]

\* The keys ensure_ready reads from a loaded artifact, in the order of lines
\* 60-66.
LoadKeys == <<"model", "matcher", "patients_df", "donors_df", "tx_df", "hb_df",
              "features_df">>

\* ThalModelManager.__init__
new_manager ==
    [is_ready |-> FALSE, model |-> [is_fitted |-> FALSE, fitted_on |-> None],
     matcher |-> None, alert_system |-> None, patients_df |-> None,
     donors_df |-> None, tx_df |-> None, hb_df |-> None, features_df |-> None]

\* engineer.build_features(patients_df, tx_df, hb_df) of a snapshot
features_of(snapshot) ==
    [built_from |-> [patients_df |-> snapshot.patients_df, tx_df |-> snapshot.tx_df,
                     hb_df |-> snapshot.hb_df]]

\* PatientAlertSystem(self.model, self.matcher, self.engineer): the system
\* holds the manager's model object and the matcher it is given.
new_alert_system(matcher) == [matcher |-> matcher]

\* self.model after model.fit(self._features_df) on the features of tx_df
fitted_model(tx_df) == [is_fitted |-> TRUE, fitted_on |-> Some(tx_df)]

\* DonorMatchingEngine(tx_df), as the manager holds it
new_matcher(tx_df) ==
    [exclusion_map |-> build_exclusion_map(tx_df), built_from |-> tx_df]

\* The dict handed to joblib.dump (lines 105-114)
saved_artifact(m) ==
    [kind |-> "saved", model |-> m.model, matcher |-> the(m.matcher),
     patients_df |-> the(m.patients_df), donors_df |-> the(m.donors_df),
     tx_df |-> the(m.tx_df), hb_df |-> the(m.hb_df),
     features_df |-> the(m.features_df)]

\* Where train_on_synthetic may stop: generate_synthetic_data raises (line
\* 81), fit raises before it has set a field of the model (line 94), mkdir
\* raises (line 104), joblib.dump raises with the file partly written (line
\* 105), or it returns.
TrainOutcomes == {"generate_raises", "fit_raises", "mkdir_raises", "dump_raises", "ok"}

\* A training that sets _is_ready once the matcher is built, before the
\* file is written.
train_ready_before_save(m, file, snapshot, outcome) ==
    LET generated == [m EXCEPT !.patients_df = Some(snapshot.patients_df),
                               !.donors_df = Some(snapshot.donors_df),
                               !.tx_df = Some(snapshot.tx_df),
                               !.hb_df = Some(snapshot.hb_df),
                               !.features_df = Some(features_of(snapshot))]
        matched == [generated EXCEPT
                       !.model = fitted_model(snapshot.tx_df),
                       !.matcher = Some(new_matcher(snapshot.tx_df)),
                       !.alert_system =
                           Some(new_alert_system(new_matcher(snapshot.tx_df))),
                       !.is_ready = TRUE]
    IN CASE outcome = "generate_raises" ->
              [mgr |-> m, disk |-> file, raised |-> "generate_synthetic_data"]
         [] outcome = "fit_raises" ->
              [mgr |-> generated, disk |-> file, raised |-> "fit"]
         [] outcome = "mkdir_raises" ->
              [mgr |-> matched, disk |-> file, raised |-> "mkdir"]
         [] outcome = "dump_raises" ->
              [mgr |-> matched, disk |-> UnreadableFile, raised |-> "dump"]
         [] outcome = "ok" ->
              [mgr |-> matched, disk |-> saved_artifact(matched), raised |-> ""]

\* A training that builds a matcher only when the manager has none.
train_keeps_matcher(m, file, snapshot, outcome) ==
    LET matcher == IF m.matcher = None THEN new_matcher(snapshot.tx_df)
                   ELSE the(m.matcher)
        matched == [m EXCEPT !.patients_df = Some(snapshot.patients_df),
                             !.donors_df = Some(snapshot.donors_df),
                             !.tx_df = Some(snapshot.tx_df),
                             !.hb_df = Some(snapshot.hb_df),
                             !.features_df = Some(features_of(snapshot)),
                             !.model = fitted_model(snapshot.tx_df),
                             !.matcher = Some(matcher),
                             !.alert_system = Some(new_alert_system(matcher))]
    IN IF outcome = "ok"
       THEN [mgr |-> [matched EXCEPT !.is_ready = TRUE],
             disk |-> saved_artifact(matched), raised |-> ""]
       ELSE [mgr |-> m, disk |-> file, raised |-> "generate_synthetic_data"]

\* train_on_synthetic, given the snapshot the generator returns and where
\* the run stops: the manager, the file and the exception afterwards.  The
\* fields are assigned in the order of lines 85-116, so a run that raises
\* leaves those assigned before the raise.
train_on_synthetic(m, file, snapshot, outcome) ==
    LET generated == [m EXCEPT !.patients_df = Some(snapshot.patients_df),
                               !.donors_df = Some(snapshot.donors_df),
                               !.tx_df = Some(snapshot.tx_df),
                               !.hb_df = Some(snapshot.hb_df),
                               !.features_df = Some(features_of(snapshot))]
        matched == [generated EXCEPT
                       !.model = fitted_model(snapshot.tx_df),
                       !.matcher = Some(new_matcher(snapshot.tx_df)),
                       !.alert_system =
                           Some(new_alert_system(new_matcher(snapshot.tx_df)))]
    IN CASE outcome = "generate_raises" ->
              [mgr |-> m, disk |-> file, raised |-> "generate_synthetic_data"]
         [] outcome = "fit_raises" ->
              [mgr |-> generated, disk |-> file, raised |-> "fit"]
         [] outcome = "mkdir_raises" ->
              [mgr |-> matched, disk |-> file, raised |-> "mkdir"]
         [] outcome = "dump_raises" ->
              [mgr |-> matched, disk |-> UnreadableFile, raised |-> "dump"]
         [] outcome = "ok" ->
              [mgr |-> [matched EXCEPT !.is_ready = TRUE],
               disk |-> saved_artifact(matched), raised |-> ""]

\* Lines 60-66 of ensure_ready up to the first key the loaded dict lacks:
\* the manager with the first n keys of LoadKeys assigned.
load_keys(m, file, n) ==
    LET read(key) == \E k \in 1..n : LoadKeys[k] = key
    IN [m EXCEPT
          !.model = IF read("model") THEN file.model ELSE @,
          !.matcher = IF read("matcher") THEN Some(file.matcher) ELSE @,
          !.patients_df = IF read("patients_df") THEN Some(file.patients_df) ELSE @,
          !.donors_df = IF read("donors_df") THEN Some(file.donors_df) ELSE @,
          !.tx_df = IF read("tx_df") THEN Some(file.tx_df) ELSE @,
          !.hb_df = IF read("hb_df") THEN Some(file.hb_df) ELSE @,
          !.features_df = IF read("features_df") THEN Some(file.features_df) ELSE @]

\* A load that leaves the manager's own model in place.
load_saved_own_model(m, file) ==
    [load_keys(m, file, Len(LoadKeys)) EXCEPT
        !.model = m.model,
        !.alert_system = Some(new_alert_system(file.matcher)),
        !.is_ready = TRUE]

\* Lines 59-72 of ensure_ready, on a file joblib can load and that has every
\* key
load_saved(m, file) ==
    [load_keys(m, file, Len(LoadKeys)) EXCEPT
        !.alert_system = Some(new_alert_system(file.matcher)),
        !.is_ready = TRUE]

\* An ensure_ready without the test of lines 53-54.
ensure_ready_always_trains(m, file, snapshots) ==
    {train_on_synthetic(m, file, snapshot, outcome) :
        snapshot \in snapshots, outcome \in TrainOutcomes}

\* ensure_ready: the set of its outcomes, one for each snapshot the
\* generator may return and each place the training may stop.
ensure_ready(m, file, snapshots) ==
    IF m.is_ready
    THEN {[mgr |-> m, disk |-> file, raised |-> ""]}
    ELSE IF file.kind = "saved"
    THEN {[mgr |-> load_saved(m, file), disk |-> file, raised |-> ""]}
    ELSE LET found == IF file.kind = "incomplete"
                      THEN load_keys(m, file, file.keys)
                      ELSE m
         IN {train_on_synthetic(found, file, snapshot, outcome) :
                snapshot \in snapshots, outcome \in TrainOutcomes}

\* round(x, 3)
round3(x) == RNorm(<<round(RMul(x, <<1000, 1>>)), 1000>>)

\* Lines 180-189 of match_donors: the rows of the frame as dicts
donors_list(matches) ==
    [i \in DOMAIN matches |->
        [donor_id |-> matches[i].donor_id,
         blood_type |-> matches[i].blood_type,
         score |-> round3(matches[i].score),
         total_donations |-> matches[i].total_donations,
         last_donation_date |-> matches[i].last_donation_date]]

\* self.matcher.get_excluded_donors(patient_id)
excluded_donors_of(m, patient_id) ==
    get_excluded_donors(the(m.matcher).exclusion_map, patient_id)

\* Lines 175-195 of match_donors on a ready manager: the dicts it may return
match_donors(m, patient_id, blood_type, top_n, now) ==
    LET excluded == excluded_donors_of(m, patient_id)
    IN {[patient_id |-> patient_id,
         eligible_donors |-> donors_list(matches),
         excluded_count |-> Cardinality(excluded)] :
           matches \in match(the(m.matcher).exclusion_map, patient_id, blood_type,
                             the(m.donors_df), top_n, now)}

\* Lines 232-251 of get_patient_history on a ready manager
get_patient_history(m, patient_id) ==
    LET tx == SelectSeq(the(m.tx_df), LAMBDA row : row.patient_id = patient_id)
        excluded == excluded_donors_of(m, patient_id)
    IN [patient_id |-> patient_id,
        transfusions |-> [i \in DOMAIN tx |-> [donor_id |-> tx[i].donor_id]],
        excluded_donors |-> excluded,
        total_transfusions |-> Len(tx)]

-----------------------------------------------------------------------------
(* Spec: the manager singleton of a server process and the requests it     *)
(* serves.  Each action is one request, from the route handler's first     *)
(* line to its response.                                                   *)

\* Donor tables of a generated snapshot: the generator gives every donor a
\* last donation date and at least one donation.
SnapshotDonorRows(d, dates) ==
    [donor_id : {d}, blood_type : {"O-"}, is_available : {TRUE},
     last_donation_date : dates, total_donations : {1}]
SnapshotDonorTables ==
    {<<r0, r1>> : r0 \in SnapshotDonorRows("DN0000", {<<345>>, <<344>>}),
                  r1 \in SnapshotDonorRows("DN0001", {<<344>>})}

\* Transfusion events of a generated snapshot: the generator gives every
\* patient at least one event.
SnapshotRows == [patient_id : {"PT0000"}, donor_id : DonorIds]
SnapshotHistories ==
    UNION {[1..n -> SnapshotRows] : n \in 1..MaxSnapshotTx}

\* Of the patient table the ids and blood types; of the hemoglobin table a
\* reading's patient, one reading after each event.
Snapshots ==
    {[tx_df |-> tx_df, donors_df |-> donors_df,
      patients_df |-> <<[patient_id |-> "PT0000", blood_type |-> "O+"]>>,
      hb_df |-> [i \in DOMAIN tx_df |-> [patient_id |-> tx_df[i].patient_id]]] :
        tx_df \in SnapshotHistories, donors_df \in SnapshotDonorTables}

\* What a process may find at MODEL_PATH when it starts: nothing, a file
\* joblib cannot load, or the artifact an earlier process saved.
StartFiles ==
    {NoFile, UnreadableFile}
       \cup {train_on_synthetic(new_manager, NoFile, snapshot, "ok").disk :
                snapshot \in Snapshots}

RequestPatients == {"PT0000", UnknownPatient}
RequestBloodTypes == {"O-", UnknownBloodType}

Init ==
    /\ mgr = new_manager
    /\ disk \in StartFiles
    /\ last_recorded = <<>>
    /\ resp = NoCall
    /\ IdleEngine
    /\ IdleCompat
    /\ IdleRank
    /\ IdleModel
    /\ IdleFeatures
    /\ IdleAlerts
    /\ IdleServer

\* POST /thal/ml/match-donors (routes/thal_ml.py lines 116-131)
MatchDonorsRoute(patient_id, blood_type, top_n, now) ==
    /\ \E ready \in ensure_ready(mgr, disk, Snapshots) :
          /\ mgr' = ready.mgr
          /\ disk' = ready.disk
          /\ IF ready.raised # ""
             THEN resp' = [op |-> "match_donors", patient_id |-> patient_id,
                           blood_type |-> blood_type, top_n |-> top_n,
                           now |-> now, status |-> 400, raised |-> ready.raised]
             ELSE \E result \in match_donors(ready.mgr, patient_id, blood_type,
                                             top_n, now) :
                     resp' = [op |-> "match_donors", patient_id |-> patient_id,
                              blood_type |-> blood_type, top_n |-> top_n,
                              now |-> now, status |-> 200, raised |-> "",
                              result |-> result]
    /\ UNCHANGED <<last_recorded, engineVars, compat, rank, modelVars, feat, alerts, serverVars>>

\* GET /thal/ml/patient/{patient_id}/history (lines 146-155)
PatientHistoryRoute(patient_id) ==
    /\ \E ready \in ensure_ready(mgr, disk, Snapshots) :
          /\ mgr' = ready.mgr
          /\ disk' = ready.disk
          /\ resp' = IF ready.raised # ""
                     THEN [op |-> "get_patient_history", patient_id |-> patient_id,
                           status |-> 404, raised |-> ready.raised]
                     ELSE [op |-> "get_patient_history", patient_id |-> patient_id,
                           status |-> 200, raised |-> "",
                           result |-> get_patient_history(ready.mgr, patient_id)]
    /\ UNCHANGED <<last_recorded, engineVars, compat, rank, modelVars, feat, alerts, serverVars>>

\* POST /thal/ml/record-transfusion (lines 158-178): ensure_ready, then the
\* response; nothing is written.
RecordTransfusionRoute(patient_id, donor_id) ==
    /\ \E ready \in ensure_ready(mgr, disk, Snapshots) :
          /\ mgr' = ready.mgr
          /\ disk' = ready.disk
          /\ IF ready.raised # ""
             THEN /\ resp' = [op |-> "record_transfusion", patient_id |-> patient_id,
                              donor_id |-> donor_id, status |-> 500,
                              raised |-> ready.raised]
                  /\ UNCHANGED last_recorded
             ELSE /\ resp' = [op |-> "record_transfusion", patient_id |-> patient_id,
                              donor_id |-> donor_id, status |-> 200, raised |-> "",
                              result |-> [status |-> "recorded",
                                          patient_id |-> patient_id,
                                          donor_flagged |-> donor_id]]
                  /\ last_recorded' = <<patient_id, donor_id>>
    /\ UNCHANGED <<engineVars, compat, rank, modelVars, feat, alerts, serverVars>>

\* GET /thal/ml/model-info (lines 57-69): the handler calls ensure_ready
\* itself and lets its exception through.
ModelInfoRoute ==
    /\ \E ready \in ensure_ready(mgr, disk, Snapshots) :
          /\ mgr' = ready.mgr
          /\ disk' = ready.disk
          /\ resp' = IF ready.raised # ""
                     THEN [op |-> "model_info", status |-> 500, raised |-> ready.raised]
                     ELSE [op |-> "model_info", status |-> 200, raised |-> "",
                           result |-> [status |-> IF ready.mgr.is_ready THEN "ready"
                                                  ELSE "not_trained"]]
    /\ UNCHANGED <<last_recorded, engineVars, compat, rank, modelVars, feat, alerts, serverVars>>

\* POST /thal/ml/train (lines 181-195)
RetrainRoute(snapshot, outcome) ==
    /\ LET trained == train_on_synthetic(mgr, disk, snapshot, outcome)
       IN /\ mgr' = trained.mgr
          /\ disk' = trained.disk
          /\ resp' = IF trained.raised # ""
                     THEN [op |-> "train", status |-> 500, raised |-> trained.raised]
                     ELSE [op |-> "train", status |-> 200, raised |-> "",
                           result |-> [status |-> "trained"]]
    /\ UNCHANGED <<last_recorded, engineVars, compat, rank, modelVars, feat, alerts, serverVars>>

Next ==
    \/ \E p \in RequestPatients, bt \in RequestBloodTypes, n \in {MaxTopN} :
          MatchDonorsRoute(p, bt, n, Today)
    \/ \E p \in RequestPatients : PatientHistoryRoute(p)
    \/ \E p \in RequestPatients, d \in DonorIds : RecordTransfusionRoute(p, d)
    \/ ModelInfoRoute
    \/ \E snapshot \in Snapshots, outcome \in TrainOutcomes :
          RetrainRoute(snapshot, outcome)

Spec == Init /\ [][Next]_vars

-----------------------------------------------------------------------------
(* Claims on Spec.                                                         *)

AnsweredBy(op) == resp.op = op /\ resp.status = 200

\* C2: once record_transfusion has answered "recorded" for patient p and
\* donor d, a later get_patient_history(p) lists d among excluded_donors and
\* a later match_donors(p, ...) does not return d.
C2_RecordedDonorExcluded ==
    last_recorded # <<>> =>
        /\ (AnsweredBy("get_patient_history") /\ resp.patient_id = last_recorded[1])
              => last_recorded[2] \in resp.result.excluded_donors
        /\ (AnsweredBy("match_donors") /\ resp.patient_id = last_recorded[1])
              => \A i \in DOMAIN resp.result.eligible_donors :
                    resp.result.eligible_donors[i].donor_id # last_recorded[2]

\* C6: a match_donors request fails only when the training inside
\* ensure_ready fails; when no donor of the pool passes the four eligibility
\* conditions it answers with eligible_donors = [] and with excluded_count
\* the number of donors of the patient's transfusion events.
C6_NoEligibleDonorEmptyResult ==
    resp.op = "match_donors" =>
        /\ resp.status # 200 => ~mgr.is_ready
        /\ resp.status = 200 =>
              LET built_from == the(mgr.matcher).built_from
              IN RuleEligibleIds(the(mgr.donors_df), built_from, resp.patient_id,
                                 resp.blood_type, resp.now) = {}
                 => /\ resp.result.eligible_donors = <<>>
                    /\ resp.result.excluded_count =
                          Cardinality(HistoryDonors(built_from, resp.patient_id))

\* A request for a patient the exclusion map does not know, with a blood type
\* that is none of the eight, on a manager whose history has an event: the
\* answer is the empty list and excluded_count 0.
C6_Witness ==
    /\ AnsweredBy("match_donors")
    /\ resp.patient_id = UnknownPatient
    /\ resp.blood_type = UnknownBloodType
    /\ the(mgr.matcher).built_from # <<>>
    /\ the(mgr.donors_df) # <<>>
    /\ resp.result.eligible_donors = <<>>
    /\ resp.result.excluded_count = 0

\* C20: once the manager is ready, ensure_ready returns without training or
\* loading, and a request that reaches the manager through ensure_ready,
\* called by the handler or by a facade operation, leaves the model, the
\* matcher, the snapshot tables and the file at MODEL_PATH as they were.
C20_EnsureReadyIdempotent ==
    /\ [](mgr.is_ready =>
            ensure_ready(mgr, disk, Snapshots)
               = {[mgr |-> mgr, disk |-> disk, raised |-> ""]})
    /\ [][(mgr.is_ready /\ resp'.op # "train") => (mgr' = mgr /\ disk' = disk)]_vars

\* A transfusion was reported recorded, so the manager was ready, and a
\* later model-info request called ensure_ready again.
C20_Witness ==
    /\ last_recorded # <<>>
    /\ AnsweredBy("model_info")
    /\ mgr.is_ready
    /\ mgr.model.is_fitted
    /\ disk.kind = "saved"

\* C23: a POST /train that fails on a ready manager leaves the manager as
\* it was (the model, the matcher, the tables) and the file as it was.
C23_FailedRetrainKeepsArtifact ==
    [][(mgr.is_ready /\ resp'.op = "train" /\ resp'.status = 500)
          => (mgr' = mgr /\ disk' = disk)]_vars

\* C29: whenever the manager is ready, its matcher's exclusion map is the
\* grouping of its transfusion table, so that the excluded donors
\* get_patient_history gives for a patient are the donors of the patient's
\* rows in that table.
C29_MatcherOfCurrentSnapshot ==
    mgr.is_ready =>
        /\ the(mgr.matcher).exclusion_map = build_exclusion_map(the(mgr.tx_df))
        /\ \A p \in RequestPatients :
              get_patient_history(mgr, p).excluded_donors
                 = {the(mgr.tx_df)[i].donor_id :
                       i \in {k \in DOMAIN the(mgr.tx_df) :
                                 the(mgr.tx_df)[k].patient_id = p}}

-----------------------------------------------------------------------------
(* TransfusionFeatureEngineer.  A transfusion event carries its date and   *)
(* the readings taken at it; a patient's events have different dates.  An  *)
(* input frame without rows still has its columns; the frame build_features*)
(* makes of no record, pd.DataFrame([]), has none.  A standard deviation   *)
(* is kept as the variance it is the root of.                              *)

RSub(x, y) == RAdd(x, <<-y[1], y[2]>>)
RDiv(x, y) == IF y[1] > 0 THEN RMul(x, <<y[2], y[1]>>) ELSE RMul(x, <<-y[2], -y[1]>>)
Sqrt(x) == [sqrt_of |-> RNorm(x)]

RECURSIVE SumSeq(_)
SumSeq(xs) == IF xs = <<>> THEN 0 ELSE xs[1] + SumSeq(Tail(xs))

RECURSIVE Concat(_)
Concat(frames) == IF frames = <<>> THEN <<>> ELSE frames[1] \o Concat(Tail(frames))

HB_SLOPE_DEFAULT == <<-7, 100>>     \* -0.07, line 120
MIN_GAP == 5                        \* line 71
MAX_GAP == 120                      \* line 71
FIRST_DAYS_SINCE_PREV == 21         \* line 101
AVG_INTERVAL_DEFAULT == 21          \* line 105
MIN_INTERVAL_DEFAULT == 14          \* line 106
STD_INTERVAL_DEFAULT == 0           \* line 107
LAST_INTERVALS == 3                 \* range(max(0, i - 3), i), line 81

\* transfusion_history_df["patient_id"].unique(): in order of first appearance
unique_patients(transfusion_history_df) ==
    LET firsts == SelectSeq([i \in DOMAIN transfusion_history_df |-> i],
                            LAMBDA i : \A j \in 1..(i - 1) :
                                transfusion_history_df[j].patient_id
                                   # transfusion_history_df[i].patient_id)
    IN [k \in DOMAIN firsts |-> transfusion_history_df[firsts[k]].patient_id]

\* sort_values("transfusion_date") of rows with different dates
sort_by_transfusion_date(pt_tx) ==
    LET perm == CHOOSE q \in Perms(DOMAIN pt_tx) :
                    \A a, b \in DOMAIN pt_tx :
                        a < b => pt_tx[q[a]].transfusion_date < pt_tx[q[b]].transfusion_date
    IN [i \in DOMAIN pt_tx |-> pt_tx[perm[i]]]

\* datetime.month of a day number; day 0 is the first of January and a year
\* has 365 days
month_of(date) ==
    LET starts == <<0, 31, 59, 90, 120, 151, 181, 212, 243, 273, 304, 334>>
    IN Cardinality({m \in DOMAIN starts : starts[m] <= date % 365})

\* np.polyfit(days, hbs, 1)[0]: the least-squares slope
polyfit_slope(days, hbs) ==
    LET n == Len(days)
        sx == SumSeq(days)
        sxx == SumSeq([i \in DOMAIN days |-> days[i] * days[i]])
        sy == SumSeq(hbs)
        sxy == SumSeq([i \in DOMAIN days |-> days[i] * hbs[i]])
    IN RNorm(<<n * sxy - sx * sy, n * sxx - sx * sx>>)

\* _calc_hb_slope (lines 115-125); hb_value is in tenths, the slope per day
calc_hb_slope(hb_df, start_date, end_date) ==
    LET window == SelectSeq(hb_df, LAMBDA r : r.reading_date > start_date
                                              /\ r.reading_date < end_date)
    IN IF Len(window) < 2 THEN HB_SLOPE_DEFAULT
       ELSE RMul(polyfit_slope([i \in DOMAIN window |-> window[i].reading_date - start_date],
                               [i \in DOMAIN window |-> window[i].hb_value]),
                 <<1, 10>>)

\* np.mean, np.min, np.std of a non-empty list of integers
mean_of(xs) == RNorm(<<SumSeq(xs), Len(xs)>>)
min_of(xs) == CHOOSE m \in {xs[i] : i \in DOMAIN xs} : \A i \in DOMAIN xs : m <= xs[i]
std_of(xs) ==
    Sqrt(RSub(<<SumSeq([i \in DOMAIN xs |-> xs[i] * xs[i]]), Len(xs)>>,
              RMul(mean_of(xs), mean_of(xs))))

\* Lines 80-83: the up to three gaps before pair i (pairs counted from 1)
past_intervals(pt_tx, i) ==
    LET from == Max(1, i - LAST_INTERVALS)
    IN [k \in 1..(i - from) |->
           pt_tx[from + k].transfusion_date - pt_tx[from + k - 1].transfusion_date]

\* A gap filter whose upper bound is exclusive.
gap_qualifies_below(days_to_next) ==
    ~(days_to_next < MIN_GAP \/ days_to_next >= MAX_GAP)

\* Line 71: a pair is skipped when days_to_next < 5 or days_to_next > 120
gap_qualifies(days_to_next) ==
    ~(days_to_next < MIN_GAP \/ days_to_next > MAX_GAP)

\* Lines 85-109: the record of pair i of a patient's sorted events
feature_record(pt_info, pt_tx, pt_hb, i) ==
    LET current_tx == pt_tx[i]
        next_tx == pt_tx[i + 1]
        hb_post == <<current_tx.hb_post_transfusion, 10>>
        hb_pre == <<current_tx.hb_pre_transfusion, 10>>
        hb_slope == calc_hb_slope(pt_hb, current_tx.transfusion_date,
                                  next_tx.transfusion_date)
        past == past_intervals(pt_tx, i)
    IN [patient_id |-> pt_info.patient_id,
        age |-> pt_info.age,
        weight_kg |-> pt_info.weight_kg,
        splenectomy |-> bool_as_int(pt_info.splenectomy),
        chelation_therapy |-> bool_as_int(pt_info.chelation_therapy),
        baseline_hb |-> pt_info.baseline_hb,
        hb_pre_transfusion |-> hb_pre,
        hb_post_transfusion |-> hb_post,
        hb_rise |-> RSub(hb_post, hb_pre),
        units_transfused |-> current_tx.units_transfused,
        reaction_occurred |-> bool_as_int(current_tx.reaction_occurred),
        tx_number |-> i,
        month_of_year |-> month_of(current_tx.transfusion_date),
        days_since_prev_tx |->
            IF i > 1
            THEN current_tx.transfusion_date - pt_tx[i - 1].transfusion_date
            ELSE FIRST_DAYS_SINCE_PREV,
        hb_decay_rate |-> hb_slope,
        predicted_hb_at_14d |-> RAdd(hb_post, RMul(hb_slope, <<14, 1>>)),
        predicted_hb_at_21d |-> RAdd(hb_post, RMul(hb_slope, <<21, 1>>)),
        avg_interval_last3 |->
            IF past # <<>> THEN mean_of(past) ELSE <<AVG_INTERVAL_DEFAULT, 1>>,
        min_interval_last3 |->
            IF past # <<>> THEN min_of(past) ELSE MIN_INTERVAL_DEFAULT,
        std_interval_last3 |->
            IF past # <<>> THEN std_of(past) ELSE Sqrt(<<STD_INTERVAL_DEFAULT, 1>>),
        days_to_next_tx |-> next_tx.transfusion_date - current_tx.transfusion_date]

\* Lines 46-110: the records of one patient of the history
patient_records(patient_id, patients_df, transfusion_history_df, hb_readings_df) ==
    LET pt_info == SelectSeq(patients_df, LAMBDA r : r.patient_id = patient_id)
        pt_tx == sort_by_transfusion_date(
                    SelectSeq(transfusion_history_df,
                              LAMBDA r : r.patient_id = patient_id))
        pt_hb == SelectSeq(hb_readings_df, LAMBDA r : r.patient_id = patient_id)
        pairs == SelectSeq([i \in 1..(Len(pt_tx) - 1) |-> i],
                    LAMBDA i : gap_qualifies(pt_tx[i + 1].transfusion_date
                                                - pt_tx[i].transfusion_date))
    IN IF pt_info = <<>> \/ Len(pt_tx) < 2 THEN <<>>
       ELSE [k \in DOMAIN pairs |-> feature_record(pt_info[1], pt_tx, pt_hb, pairs[k])]

\* build_features (lines 36-113)
build_features(patients_df, transfusion_history_df, hb_readings_df) ==
    LET patients == unique_patients(transfusion_history_df)
    IN Concat([k \in DOMAIN patients |->
                  patient_records(patients[k], patients_df,
                                  transfusion_history_df, hb_readings_df)])

\* build_features_for_prediction (lines 127-143): full_df["patient_id"] on
\* the frame without columns raises KeyError
build_features_for_prediction(patient_id, patients_df, transfusion_history_df, hb_readings_df) ==
    LET full_df == build_features(patients_df, transfusion_history_df, hb_readings_df)
        pt_features == SelectSeq(full_df, LAMBDA r : r.patient_id = patient_id)
    IN IF full_df = <<>>
       THEN [raised |-> "KeyError", message |-> <<"patient_id">>]
       ELSE IF pt_features = <<>>
       THEN [raised |-> "ValueError",
             message |-> <<"Could not build features for patient", patient_id>>]
       ELSE [raised |-> "", features |-> <<pt_features[Len(pt_features)]>>]

RMax(x, y) == IF RLess(x, y) THEN y ELSE x

\* predict_from_params, lines 147-167 of model_manager.py: the feature row
\* built from raw clinical parameters.  avg_interval and hb_decay_rate are
\* <<>> when the caller leaves them to their defaults (21.0 and -0.07).
params_features(age, weight_kg, splenectomy, chelation_therapy, baseline_hb, hb_pre, hb_post, days_since_last_tx, avg_interval, hb_decay_rate, now) ==
    LET avg == IF avg_interval = <<>> THEN <<21, 1>> ELSE avg_interval[1]
        rate == IF hb_decay_rate = <<>> THEN <<-7, 100>> ELSE hb_decay_rate[1]
    IN [age |-> age,
        weight_kg |-> weight_kg,
        splenectomy |-> bool_as_int(splenectomy),
        chelation_therapy |-> bool_as_int(chelation_therapy),
        baseline_hb |-> baseline_hb,
        hb_pre_transfusion |-> hb_pre,
        hb_post_transfusion |-> hb_post,
        hb_rise |-> RSub(hb_post, hb_pre),
        units_transfused |-> 2,
        reaction_occurred |-> 0,
        tx_number |-> 10,
        month_of_year |-> month_of(now),
        days_since_prev_tx |-> days_since_last_tx,
        hb_decay_rate |-> rate,
        predicted_hb_at_14d |-> RAdd(hb_post, RMul(rate, <<14, 1>>)),
        predicted_hb_at_21d |-> RAdd(hb_post, RMul(rate, <<21, 1>>)),
        avg_interval_last3 |-> avg,
        min_interval_last3 |-> RMax(<<14, 1>>, RSub(avg, <<3, 1>>)),
        std_interval_last3 |-> Sqrt(<<25, 4>>)]

-----------------------------------------------------------------------------
(* FeatureSpec: the feature engineer is handed a snapshot and asked for    *)
(* the training frame or for one patient's prediction row.                 *)

FeaturePatients == {"PT0000", "PT0001"}

PatientRecord(p) ==
    [patient_id |-> p, blood_type |-> "O+", age |-> 12, weight_kg |-> <<35, 1>>,
     splenectomy |-> FALSE, chelation_therapy |-> TRUE, baseline_hb |-> <<75, 10>>]

\* Patient tables: a row for each patient of a set, in id order.
PatientTables ==
    {<<>>, <<PatientRecord("PT0000")>>, <<PatientRecord("PT0001")>>,
     <<PatientRecord("PT0000"), PatientRecord("PT0001")>>}

\* Dates that give the gaps 1, 4, 5, 9, 120, 121 and longer ones.
EventDates == {0, 4, 9, 129, 130}

\* The event of patient p at a date; hb readings in tenths.
EventAt(p, date) ==
    [patient_id |-> p, donor_id |-> "DN0000", transfusion_date |-> date,
     hb_pre_transfusion |-> 70 + (date % 5), hb_post_transfusion |-> 100 + (date % 7),
     units_transfused |-> 2, reaction_occurred |-> FALSE]

\* Histories: up to MaxEvents events in any row order, no patient with two
\* events at one date.
EventHistories ==
    LET events == {EventAt(p, d) : p \in FeaturePatients, d \in EventDates}
    IN UNION {{h \in [1..n -> events] : \A i, j \in 1..n : i # j => h[i] # h[j]} :
                 n \in 0..MaxEvents}

HbReading(p, date, tenths) == [patient_id |-> p, reading_date |-> date, hb_value |-> tenths]
HbFrames ==
    {<<>>,
     <<HbReading("PT0000", 5, 98)>>,
     <<HbReading("PT0000", 5, 98), HbReading("PT0000", 7, 96), HbReading("PT0000", 8, 96)>>}

FeatureInit ==
    /\ \E patients_df \in PatientTables, transfusion_history_df \in EventHistories,
          hb_readings_df \in HbFrames :
          feat = [op |-> "pending", patients_df |-> patients_df,
                  transfusion_history_df |-> transfusion_history_df,
                  hb_readings_df |-> hb_readings_df]
    /\ IdleEngine
    /\ IdleCompat
    /\ IdleRank
    /\ IdleModel
    /\ IdleManager
    /\ IdleAlerts
    /\ IdleServer

\* engineer.build_features on the snapshot
BuildFeatures ==
    /\ feat.op = "pending"
    /\ feat' = [feat EXCEPT !.op = "build_features"]
                  @@ [result |-> build_features(feat.patients_df,
                                                feat.transfusion_history_df,
                                                feat.hb_readings_df)]
    /\ UNCHANGED <<engineVars, compat, rank, modelVars, managerVars, alerts, serverVars>>

\* engineer.build_features_for_prediction(patient_id, ...) on the snapshot
BuildFeaturesForPrediction(patient_id) ==
    /\ feat.op = "pending"
    /\ feat' = [feat EXCEPT !.op = "build_features_for_prediction"]
                  @@ [patient_id |-> patient_id,
                      outcome |-> build_features_for_prediction(
                                     patient_id, feat.patients_df,
                                     feat.transfusion_history_df,
                                     feat.hb_readings_df)]
    /\ UNCHANGED <<engineVars, compat, rank, modelVars, managerVars, alerts, serverVars>>

FeatureNext ==
    \/ BuildFeatures
    \/ \E p \in FeaturePatients \cup {UnknownPatient} : BuildFeaturesForPrediction(p)

FeatureSpec == FeatureInit /\ [][FeatureNext]_vars

\* The patient pairs (i, i+1) of the rule: for a patient with a patient
\* record and at least 2 events, the consecutive events in date order whose
\* gap g satisfies 5 <= g <= 120, as [patient_id, tx_number, days_to_next_tx].
RulePairs(patients_df, transfusion_history_df) ==
    LET known == {patients_df[i].patient_id : i \in DOMAIN patients_df}
        dates(p) == {transfusion_history_df[i].transfusion_date :
                        i \in {j \in DOMAIN transfusion_history_df :
                                  transfusion_history_df[j].patient_id = p}}
        after(p, d) == {x \in dates(p) : x > d}
        next(p, d) == CHOOSE x \in after(p, d) : \A y \in after(p, d) : x <= y
    IN {[patient_id |-> p,
         tx_number |-> Cardinality({x \in dates(p) : x <= d}),
         days_to_next_tx |-> next(p, d) - d] :
           <<p, d>> \in {pd \in known \X EventDates :
                           /\ pd[2] \in dates(pd[1])
                           /\ after(pd[1], pd[2]) # {}
                           /\ next(pd[1], pd[2]) - pd[2] >= 5
                           /\ next(pd[1], pd[2]) - pd[2] <= 120}}

RowKey(row) ==
    [patient_id |-> row.patient_id, tx_number |-> row.tx_number,
     days_to_next_tx |-> row.days_to_next_tx]

\* C13: build_features emits exactly one row for each consecutive pair of a
\* patient's events in date order whose gap g satisfies 5 <= g <= 120, with
\* days_to_next_tx = g and tx_number the pair's position, a patient's rows in
\* date order, and no row for any other pair, for a patient with fewer than
\* 2 events or for a patient without a patient record.
C13_OneRowPerQualifyingPair ==
    feat.op = "build_features" =>
        LET rows == feat.result
            rule == RulePairs(feat.patients_df, feat.transfusion_history_df)
        IN /\ {RowKey(rows[i]) : i \in DOMAIN rows} = rule
           /\ Len(rows) = Cardinality(rule)
           /\ \A i, j \in DOMAIN rows :
                 (i < j /\ rows[i].patient_id = rows[j].patient_id)
                    => rows[i].tx_number < rows[j].tx_number

\* A patient with events 4 days and then 5 days apart, given out of date
\* order: exactly one row, for the second pair, labelled 5.
C13_Witness ==
    /\ feat.op = "build_features"
    /\ Len(feat.transfusion_history_df) = 3
    /\ feat.transfusion_history_df[1].transfusion_date = 9
    /\ feat.transfusion_history_df[2].transfusion_date = 0
    /\ feat.transfusion_history_df[3].transfusion_date = 4
    /\ Len(feat.result) = 1
    /\ feat.result[1].days_to_next_tx = 5
    /\ feat.result[1].tx_number = 2

\* C14: build_features_for_prediction(p) returns the one feature row of p's
\* latest qualifying pair, and raises ValueError "Could not build features
\* for patient p" whenever p has no qualifying pair.
C14_LatestRowOrNotFound ==
    feat.op = "build_features_for_prediction" =>
        LET mine == {r \in RulePairs(feat.patients_df, feat.transfusion_history_df) :
                        r.patient_id = feat.patient_id}
        IN IF mine = {}
           THEN /\ feat.outcome.raised = "ValueError"
                /\ feat.outcome.message
                      = <<"Could not build features for patient", feat.patient_id>>
           ELSE /\ feat.outcome.raised = ""
                /\ Len(feat.outcome.features) = 1
                /\ RowKey(feat.outcome.features[1]) \in mine
                /\ \A r \in mine : r.tx_number <= feat.outcome.features[1].tx_number

-----------------------------------------------------------------------------
(* ParamsSpec: predict_from_params builds its feature row from the raw     *)
(* clinical parameters of a request.                                       *)

\* Readings in g/dL, intervals in days and decay rates in g/dL per day that
\* a request carries; <<>> leaves a parameter to its default.
ParamHbPre == {<<7, 1>>, <<15, 2>>, <<8, 1>>}
ParamHbPost == {<<10, 1>>, <<21, 2>>, <<11, 1>>}
ParamDaysSince == {3, 21}
ParamAvgIntervals == {<<>>, <<<<14, 1>>>>, <<<<35, 2>>>>, <<<<28, 1>>>>}
ParamDecayRates == {<<>>, <<<<-7, 100>>>>, <<<<-1, 10>>>>}
ParamNows == {Today, Today + 31}

ParamsInit ==
    /\ IdleEngine /\ IdleCompat /\ IdleRank /\ IdleModel /\ IdleManager
    /\ IdleFeatures
    /\ IdleAlerts
    /\ IdleServer

\* The feature row of predict_from_params for a request's parameters.
ParamsFeatures(hb_pre, hb_post, days_since_last_tx, avg_interval, hb_decay_rate, now) ==
    /\ feat' = [op |-> "predict_from_params",
                hb_pre |-> hb_pre, hb_post |-> hb_post,
                avg_interval |-> avg_interval, hb_decay_rate |-> hb_decay_rate,
                features |-> params_features(12, <<35, 1>>, FALSE, TRUE, <<75, 10>>,
                                             hb_pre, hb_post, days_since_last_tx,
                                             avg_interval, hb_decay_rate, now)]
    /\ UNCHANGED <<engineVars, compat, rank, modelVars, managerVars, alerts, serverVars>>

ParamsNext ==
    \E hb_pre \in ParamHbPre, hb_post \in ParamHbPost, days \in ParamDaysSince,
       avg_interval \in ParamAvgIntervals, hb_decay_rate \in ParamDecayRates,
       now \in ParamNows :
        ParamsFeatures(hb_pre, hb_post, days, avg_interval, hb_decay_rate, now)

ParamsSpec == ParamsInit /\ [][ParamsNext]_vars

\* C15: the row predict_from_params builds has hb_rise = hb_post - hb_pre,
\* predicted_hb_at_14d and _21d = hb_post + slope * 14 and * 21 with the slope
\* defaulting to -0.07, and rolling interval statistics that default, as in
\* build_features, to mean 21, min 14 and std 0.
C15_ParamsRowAsBuildFeatures ==
    feat.op = "predict_from_params" =>
        LET row == feat.features
            slope == IF feat.hb_decay_rate = <<>> THEN HB_SLOPE_DEFAULT
                     ELSE feat.hb_decay_rate[1]
        IN /\ REq(row.hb_rise, RSub(feat.hb_post, feat.hb_pre))
           /\ REq(row.predicted_hb_at_14d, RAdd(feat.hb_post, RMul(slope, <<14, 1>>)))
           /\ REq(row.predicted_hb_at_21d, RAdd(feat.hb_post, RMul(slope, <<21, 1>>)))
           /\ feat.avg_interval = <<>> =>
                 /\ REq(row.avg_interval_last3, <<AVG_INTERVAL_DEFAULT, 1>>)
                 /\ REq(row.min_interval_last3, <<MIN_INTERVAL_DEFAULT, 1>>)
                 /\ row.std_interval_last3 = Sqrt(<<STD_INTERVAL_DEFAULT, 1>>)

-----------------------------------------------------------------------------
(* PatientAlertSystem.run_daily_batch and ThalModelManager.get_daily_alerts.*)
(* A system is the timing model, its is_fitted and what its regressors     *)
(* return for a feature row, and the matcher's exclusion map.  The         *)
(* regressors are functions of the feature row: of its age column here,    *)
(* the column in which the patients of a batch differ.                     *)

BATCH_TOP_N == 3    \* top_n=3, line 380

\* model.predict(features) (line 374) for a frame of one row
predict_row(system, features, now) ==
    LET out == system.regressors[features[1].age]
    IN predict(system.is_fitted, out.rf_pred, out.gb_pred, out.std_dev, now)

\* A sentinel left blank.
top_donor_id_blank(matched_donors) ==
    IF matched_donors # <<>> THEN matched_donors[1].donor_id ELSE ""

\* Line 392
top_donor_id_of(matched_donors) ==
    IF matched_donors # <<>> THEN matched_donors[1].donor_id ELSE "NONE"

\* Lines 383-394; predicted_date is the day number of the date the string
\* names.
alert_record(system, patient, predicted, matched_donors) ==
    [patient_id |-> patient.patient_id,
     blood_type |-> patient.blood_type,
     predicted_days |-> predicted.predicted_days,
     predicted_date |-> predicted.next_date,
     urgency |-> predicted.urgency,
     confidence_low |-> predicted.confidence_range[1],
     confidence_high |-> predicted.confidence_range[2],
     eligible_donors |-> Len(matched_donors),
     top_donor_id |-> top_donor_id_of(matched_donors),
     excluded_donors |->
        Cardinality(get_excluded_donors(system.exclusion_map, patient.patient_id))]

\* Lines 368-396, the body of the loop for one patient: the exception it
\* caught, or the record it appended for a frame match may return.
process_patient(system, patient, patients_df, transfusion_history_df, hb_readings_df, donors_df, now) ==
    LET built == build_features_for_prediction(patient.patient_id, patients_df,
                                               transfusion_history_df, hb_readings_df)
    IN IF built.raised # "" THEN {[raised |-> built.raised]}
       ELSE LET predicted == predict_row(system, built.features, now)
            IN IF predicted.raised # "" THEN {[raised |-> predicted.raised]}
               ELSE {[raised |-> "",
                      record |-> alert_record(system, patient, predicted.result,
                                              matched_donors)] :
                        matched_donors \in match(system.exclusion_map,
                                                 patient.patient_id, patient.blood_type,
                                                 donors_df, BATCH_TOP_N, now)}

\* A loop that a patient's exception ends.
collect_results_until_failure(outcomes) ==
    LET ok == SelectSeq([i \in DOMAIN outcomes |-> i],
                        LAMBDA i : \A j \in 1..i : outcomes[j].raised = "")
    IN [k \in DOMAIN ok |-> outcomes[ok[k]].record]

\* results (lines 365, 383, 395): the records of the patients whose
\* iteration raised nothing, in the order of the patients
collect_results(outcomes) ==
    LET ok == SelectSeq([i \in DOMAIN outcomes |-> i],
                        LAMBDA i : outcomes[i].raised = "")
    IN [k \in DOMAIN ok |-> outcomes[ok[k]].record]

\* The order of the tier names as strings.
urgency_rank_by_name(urgency) ==
    CASE urgency = "SOON" -> 0
      [] urgency = "STABLE" -> 1
      [] urgency = "URGENT" -> 2

\* urgency_order, line 401
urgency_rank(urgency) ==
    CASE urgency = "URGENT" -> 0
      [] urgency = "SOON" -> 1
      [] urgency = "STABLE" -> 2

\* Line 403: sort_values(["urgency_rank", "predicted_days"]); a sort on
\* more than one column keeps rows with equal keys in their order.
sort_alerts(results) ==
    LET less(a, b) ==
            \/ urgency_rank(a.urgency) < urgency_rank(b.urgency)
            \/ /\ urgency_rank(a.urgency) = urgency_rank(b.urgency)
               /\ a.predicted_days < b.predicted_days
        before(i, j) ==
            \/ less(results[i], results[j])
            \/ ~less(results[j], results[i]) /\ i < j
        perm == CHOOSE q \in Perms(DOMAIN results) :
                    \A a, b \in DOMAIN results : a < b => before(q[a], q[b])
    IN [i \in DOMAIN results |-> results[perm[i]]]

\* run_daily_batch (lines 358-405): the frames it may return.
run_daily_batch(system, patients_df, transfusion_history_df, hb_readings_df, donors_df, now) ==
    LET outcomes == UNION {{<<i, outcome>> :
                                outcome \in process_patient(
                                    system, patients_df[i], patients_df,
                                    transfusion_history_df, hb_readings_df,
                                    donors_df, now)} : i \in DOMAIN patients_df}
        runs == {run \in [DOMAIN patients_df -> {o[2] : o \in outcomes}] :
                    \A i \in DOMAIN patients_df : <<i, run[i]>> \in outcomes}
    IN {sort_alerts(collect_results(run)) : run \in runs}

\* Lists cut by thresholds of their own, the first one exclusive.
tier_list_by_days(alert_list, tier) ==
    SelectSeq(alert_list, LAMBDA a : urgency_below(a.predicted_days) = tier)

\* model_manager.py, lines 208-210
tier_list(alert_list, tier) ==
    SelectSeq(alert_list, LAMBDA a : a.urgency = tier)

\* model_manager.py, lines 206-221, for the frame of alerts
daily_alerts(alert_list, now) ==
    LET urgent == tier_list(alert_list, "URGENT")
        soon == tier_list(alert_list, "SOON")
        stable == tier_list(alert_list, "STABLE")
    IN [generated_at |-> now,
        total_patients |-> Len(alert_list),
        urgent_count |-> Len(urgent),
        soon_count |-> Len(soon),
        stable_count |-> Len(stable),
        urgent |-> urgent,
        soon |-> soon,
        stable |-> stable]

\* get_daily_alerts (model_manager.py, lines 197-221) of a ready manager
\* whose alert system is system and whose snapshot is the four tables.
get_daily_alerts(system, patients_df, transfusion_history_df, hb_readings_df, donors_df, limit, now) ==
    {daily_alerts(alert_list, now) :
        alert_list \in run_daily_batch(system, head(patients_df, limit),
                                       transfusion_history_df, hb_readings_df,
                                       donors_df, now)}

-----------------------------------------------------------------------------
(* AlertSpec: an alert system is handed a batch, directly or by the        *)
(* manager's get_daily_alerts.                                             *)

AlertPatients == {"PT0000", "PT0001", "PT0002"}

AlertPatient(p) ==
    [PatientRecord(p) EXCEPT
        !.age = CASE p = "PT0000" -> 12 [] p = "PT0001" -> 20 [] p = "PT0002" -> 31,
        !.blood_type = CASE p = "PT0000" -> "O+" [] p = "PT0001" -> "A+"
                         [] p = "PT0002" -> "AB+"]

\* Patient tables: the patients of a set in any row order.
AlertPatientTables ==
    UNION {{[i \in DOMAIN q |-> AlertPatient(q[i])] : q \in Perms(S)} :
              S \in SUBSET AlertPatients}

\* What a patient's history may be: no event; two events 4 days apart; two
\* events 9 days apart, from one donor or from two.
HistoryKinds == {"none", "short", "one_donor", "two_donors"}

AlertEvent(p, date, donor) == [EventAt(p, date) EXCEPT !.donor_id = donor]

AlertHistoryOf(p, kind) ==
    CASE kind = "none" -> <<>>
      [] kind = "short" -> <<AlertEvent(p, 0, "DN0000"), AlertEvent(p, 4, "DN0000")>>
      [] kind = "one_donor" -> <<AlertEvent(p, 0, "DN0000"), AlertEvent(p, 9, "DN0000")>>
      [] kind = "two_donors" -> <<AlertEvent(p, 0, "DN0000"), AlertEvent(p, 9, "DN0001")>>

\* What the regressors and the spread of the trees may be for a row.
AlertOutputs ==
    {[rf_pred |-> <<n, 1>>, gb_pred |-> <<n, 1>>, std_dev |-> <<3, 2>>] :
        n \in {5, 7, 10, 20}}

\* A donor nobody received blood from, of the universal type, available and
\* never having donated, and a donor of the histories.
AlertPool ==
    <<[donor_id |-> "DN0002", blood_type |-> "O-", is_available |-> TRUE,
       last_donation_date |-> NoDate, total_donations |-> 1],
      [donor_id |-> "DN0000", blood_type |-> "O-", is_available |-> TRUE,
       last_donation_date |-> <<Today - COOLDOWN_DAYS>>, total_donations |-> 1]>>

AlertLimits == {2, 20}

\* The patients outside the table have no events.  The regressors of a model
\* that is not fitted, and those of a fitted one for a row no patient of the
\* table has, return the first output.
AlertInit ==
    /\ \E patients_df \in AlertPatientTables, fitted \in BOOLEAN,
          kinds \in [AlertPatients -> HistoryKinds],
          outputs \in [AlertPatients -> AlertOutputs] :
          LET in_table == {patients_df[i].patient_id : i \in DOMAIN patients_df}
              first == CHOOSE o \in AlertOutputs : o.rf_pred = <<5, 1>>
              tx_df == Concat(<<AlertHistoryOf("PT0000", kinds["PT0000"]),
                                AlertHistoryOf("PT0001", kinds["PT0001"]),
                                AlertHistoryOf("PT0002", kinds["PT0002"])>>)
          IN /\ \A p \in AlertPatients \ in_table : kinds[p] = "none"
             /\ \A p \in AlertPatients :
                   (~fitted \/ kinds[p] \in {"none", "short"}) => outputs[p] = first
             /\ alerts = [op |-> "pending",
                          system |-> [is_fitted |-> fitted,
                                      regressors |-> [age \in {AlertPatient(p).age : p \in AlertPatients} |->
                                                        outputs[CHOOSE p \in AlertPatients : AlertPatient(p).age = age]],
                                      exclusion_map |-> build_exclusion_map(tx_df)],
                          patients_df |-> patients_df,
                          transfusion_history_df |-> tx_df,
                          hb_readings_df |-> <<>>,
                          donors_df |-> AlertPool,
                          now |-> Today]
    /\ IdleEngine
    /\ IdleCompat
    /\ IdleRank
    /\ IdleModel
    /\ IdleManager
    /\ IdleFeatures
    /\ IdleServer

\* alert_system.run_daily_batch on the tables
RunDailyBatch ==
    /\ alerts.op = "pending"
    /\ \E result \in run_daily_batch(alerts.system, alerts.patients_df,
                                     alerts.transfusion_history_df,
                                     alerts.hb_readings_df, alerts.donors_df,
                                     alerts.now) :
          alerts' = [alerts EXCEPT !.op = "run_daily_batch"] @@ [result |-> result]
    /\ UNCHANGED <<engineVars, compat, rank, modelVars, managerVars, feat, serverVars>>

\* get_daily_alerts(limit) of a manager that ensure_ready (line 199) finds
\* or has made ready: its model is fitted.
GetDailyAlerts(limit) ==
    /\ alerts.op = "pending"
    /\ alerts.system.is_fitted
    /\ \E response \in get_daily_alerts(alerts.system, alerts.patients_df,
                                        alerts.transfusion_history_df,
                                        alerts.hb_readings_df, alerts.donors_df,
                                        limit, alerts.now) :
          alerts' = [alerts EXCEPT !.op = "get_daily_alerts"]
                       @@ [limit |-> limit, response |-> response]
    /\ UNCHANGED <<engineVars, compat, rank, modelVars, managerVars, feat, serverVars>>

AlertNext ==
    \/ RunDailyBatch
    \/ \E limit \in AlertLimits : GetDailyAlerts(limit)

AlertSpec == AlertInit /\ [][AlertNext]_vars

-----------------------------------------------------------------------------
(* Claims on AlertSpec.                                                    *)

\* The tier of a day count by the thresholds of the contract, and the place
\* of a tier in the order of review.
TierRule(days) ==
    IF days <= 7 THEN "URGENT" ELSE IF days <= 14 THEN "SOON" ELSE "STABLE"

TierPlace(tier) == CHOOSE k \in 1..3 : <<"URGENT", "SOON", "STABLE">>[k] = tier

BatchDone == alerts.op = "run_daily_batch"

\* The patient of row i of the table has a qualifying pair of events.
HasFeatureRow(i) ==
    \E r \in RulePairs(alerts.patients_df, alerts.transfusion_history_df) :
        r.patient_id = alerts.patients_df[i].patient_id

\* Feature construction, prediction and matching all succeed for row i:
\* there is a feature row and the model is fitted; match raises nothing.
Succeeds(i) == HasFeatureRow(i) /\ alerts.system.is_fitted

\* C16: the output of run_daily_batch has every URGENT record before every
\* SOON record before every STABLE record, and within a tier the records in
\* ascending order of predicted_days, whatever the order of the patients.
C16_BatchOrder ==
    BatchDone =>
        \A i, j \in DOMAIN alerts.result :
            i < j =>
                LET a == alerts.result[i]
                    b == alerts.result[j]
                IN /\ TierPlace(a.urgency) <= TierPlace(b.urgency)
                   /\ a.urgency = b.urgency => a.predicted_days <= b.predicted_days

\* Patients predicted 20, 5 and 10 days, in that order, came out as 5, 10, 20.
C16_Witness ==
    /\ BatchDone
    /\ Len(alerts.patients_df) = 3
    /\ Len(alerts.result) = 3
    /\ [i \in 1..3 |-> alerts.result[i].predicted_days] = <<5, 10, 20>>
    /\ [i \in 1..3 |-> alerts.result[i].patient_id]
          = <<alerts.patients_df[2].patient_id, alerts.patients_df[3].patient_id,
              alerts.patients_df[1].patient_id>>

\* C17: the output of run_daily_batch holds exactly one record for each
\* patient of the batch for whom feature construction, prediction and
\* matching succeed and none for any other patient, and each record is the
\* one a batch of that patient alone gives: a failing patient neither ends
\* the batch nor changes another patient's record.
C17_BatchSurvivesBadPatient ==
    BatchDone =>
        LET good == {i \in DOMAIN alerts.patients_df : Succeeds(i)}
            alone(i) == run_daily_batch(alerts.system, <<alerts.patients_df[i]>>,
                                        alerts.transfusion_history_df,
                                        alerts.hb_readings_df, alerts.donors_df,
                                        alerts.now)
        IN /\ Len(alerts.result) = Cardinality(good)
           /\ \A i \in good :
                 \E j \in DOMAIN alerts.result :
                    /\ alerts.result[j].patient_id = alerts.patients_df[i].patient_id
                    /\ <<alerts.result[j]>> \in alone(i)
           /\ \A j \in DOMAIN alerts.result :
                 \E i \in good :
                    alerts.result[j].patient_id = alerts.patients_df[i].patient_id

\* A batch of three whose second patient has no feature row: the first and
\* the third have their records.
C17_Witness ==
    /\ BatchDone
    /\ Len(alerts.patients_df) = 3
    /\ Succeeds(1) /\ ~Succeeds(2) /\ Succeeds(3)
    /\ {alerts.result[j].patient_id : j \in DOMAIN alerts.result}
          = {alerts.patients_df[1].patient_id, alerts.patients_df[3].patient_id}

\* C18: in every alert record eligible_donors is between 0 and 3;
\* top_donor_id is "NONE" exactly when eligible_donors is 0 and otherwise is
\* a donor who is eligible for the patient, so not in the patient's
\* exclusion set, and whom no eligible donor outscores; excluded_donors is
\* the number of donors in the patient's exclusion set.
C18_AlertDonorFields ==
    BatchDone =>
        \A j \in DOMAIN alerts.result :
            LET a == alerts.result[j]
                h == alerts.transfusion_history_df
                eligible == SelectSeq(alerts.donors_df,
                               LAMBDA row : RuleEligible(row, h, a.patient_id,
                                                         a.blood_type, alerts.now))
            IN /\ a.eligible_donors \in 0..3
               /\ a.top_donor_id = "NONE" <=> a.eligible_donors = 0
               /\ a.eligible_donors > 0 =>
                     /\ a.top_donor_id \in ResultIds(eligible)
                     /\ a.top_donor_id \notin HistoryDonors(h, a.patient_id)
                     /\ \A e \in DOMAIN eligible :
                           ~RLess(RuleScore(PoolRow(eligible, a.top_donor_id),
                                            eligible, alerts.now),
                                  RuleScore(eligible[e], eligible, alerts.now))
               /\ a.excluded_donors = Cardinality(HistoryDonors(h, a.patient_id))

\* A record of a patient who received blood from two donors: two excluded,
\* none matched, the sentinel as top donor.
C18_Witness ==
    /\ BatchDone
    /\ \E j \in DOMAIN alerts.result :
          /\ alerts.result[j].excluded_donors = 2
          /\ alerts.result[j].eligible_donors = 0
          /\ alerts.result[j].top_donor_id = "NONE"

-----------------------------------------------------------------------------
(* FacadeSpec: a process constructs the manager singleton and its callers  *)
(* use the manager's operations, each of which begins with ensure_ready.   *)
(* Each action is one call of a method, from its first line to its return  *)
(* or its exception.                                                       *)

\* predict_for_patient, lines 123-126, of a manager ensure_ready has
\* returned on; out is what the regressors return for the row.
predict_for_patient(m, patient_id, out, now) ==
    LET built == build_features_for_prediction(patient_id, the(m.patients_df),
                                               the(m.tx_df), the(m.hb_df))
    IN IF built.raised # ""
       THEN [op |-> "predict", raised |-> built.raised]
       ELSE predict(m.model.is_fitted, out.rf_pred, out.gb_pred, out.std_dev, now)

\* predict_from_params, lines 144-169, for a row of parameters
predict_from_params(m, out, now) ==
    predict(m.model.is_fitted, out.rf_pred, out.gb_pred, out.std_dev, now)

\* self.model.training_metrics or {} (line 226): the metrics are those of
\* the fit that made the model, {} is <<>>.
get_model_metrics(m) ==
    IF m.model.fitted_on = None THEN <<>> ELSE [trained_on |-> the(m.model.fitted_on)]

\* The alert system of a manager, as run_daily_batch reads it: the model
\* object is the manager's, the matcher the one it was constructed with.
alert_system_of(m, out) ==
    [is_fitted |-> m.model.is_fitted,
     regressors |-> [age \in {AlertPatient(p).age : p \in AlertPatients} |-> out],
     exclusion_map |-> the(m.alert_system).matcher.exclusion_map]

\* Snapshots of the generator, for two patients and two donors and for one
\* patient and one donor: every donor has a last donation date, every
\* patient has events two or more weeks apart, each from a donor the patient
\* has not had while there is one, and a reading follows each event.
FacadeDonor(d) ==
    [donor_id |-> d, blood_type |-> "O-", is_available |-> TRUE,
     last_donation_date |-> <<Today - COOLDOWN_DAYS>>, total_donations |-> 1]

FacadeSnapshots ==
    {[patients_df |-> <<AlertPatient("PT0000"), AlertPatient("PT0001")>>,
      donors_df |-> <<FacadeDonor("DN0000"), FacadeDonor("DN0001")>>,
      tx_df |-> <<AlertEvent("PT0000", 0, "DN0000"), AlertEvent("PT0000", 21, "DN0001"),
                  AlertEvent("PT0001", 0, "DN0001"), AlertEvent("PT0001", 21, "DN0000")>>,
      hb_df |-> <<HbReading("PT0000", 5, 98), HbReading("PT0000", 26, 97),
                  HbReading("PT0001", 5, 98), HbReading("PT0001", 26, 97)>>],
     [patients_df |-> <<AlertPatient("PT0000")>>,
      donors_df |-> <<FacadeDonor("DN0001")>>,
      tx_df |-> <<AlertEvent("PT0000", 0, "DN0001"), AlertEvent("PT0000", 21, "DN0001")>>,
      hb_df |-> <<HbReading("PT0000", 5, 98), HbReading("PT0000", 26, 97)>>]}

\* A file joblib loads to a dict that has only the first n keys of LoadKeys.
incomplete_artifact(file, n) == [file EXCEPT !.kind = "incomplete"] @@ [keys |-> n]

\* The artifacts earlier processes saved
SavedArtifacts ==
    {train_on_synthetic(new_manager, NoFile, snapshot, "ok").disk :
        snapshot \in FacadeSnapshots}

\* What a process may find at MODEL_PATH when it starts: nothing, a file
\* joblib cannot load, a saved artifact, or a dict that lacks keys.
FacadeStartFiles ==
    {NoFile, UnreadableFile} \cup SavedArtifacts
       \cup {incomplete_artifact(file, n) : file \in SavedArtifacts, n \in {2, 6}}

FacadePatients == {"PT0000", "PT0001", UnknownPatient}
FacadeOutputs == {out \in AlertOutputs : out.rf_pred \in {<<7, 1>>, <<20, 1>>}}
FacadeOps ==
    {"predict_for_patient", "predict_from_params", "match_donors",
     "get_daily_alerts", "get_model_metrics", "get_patient_history"}

FacadeInit ==
    /\ mgr = new_manager
    /\ disk \in FacadeStartFiles
    /\ last_recorded = <<>>
    /\ resp = NoCall
    /\ IdleEngine
    /\ IdleCompat
    /\ IdleRank
    /\ IdleModel
    /\ IdleFeatures
    /\ IdleAlerts
    /\ IdleServer

\* What a call leaves in resp: the method and its arguments, whether
\* ensure_ready found the manager ready, the transfusion table and the file
\* it found, what ensure_ready raised, and the method's result or exception.
Called(op, request, ready) ==
    [op |-> op, request |-> request, found_ready |-> mgr.is_ready,
     found_tx_df |-> mgr.tx_df, found_file |-> disk, not_ready |-> ready.raised]

Gave(result) == [raised |-> "", result |-> result]
Threw(exception) == [raised |-> exception]

\* ensure_ready()
EnsureReady ==
    /\ \E ready \in ensure_ready(mgr, disk, FacadeSnapshots) :
          /\ mgr' = ready.mgr
          /\ disk' = ready.disk
          /\ resp' = Called("ensure_ready", <<>>, ready) @@ Threw(ready.raised)
    /\ UNCHANGED <<last_recorded, engineVars, compat, rank, modelVars, feat, alerts, serverVars>>

\* predict_for_patient(patient_id)
PredictForPatient(patient_id, out) ==
    /\ \E ready \in ensure_ready(mgr, disk, FacadeSnapshots) :
          /\ mgr' = ready.mgr
          /\ disk' = ready.disk
          /\ resp' = Called("predict_for_patient", <<patient_id>>, ready) @@
                (IF ready.raised # "" THEN Threw(ready.raised)
                 ELSE LET answer == predict_for_patient(ready.mgr, patient_id, out, Today)
                      IN IF answer.raised # "" THEN Threw(answer.raised)
                         ELSE Gave(answer.result))
    /\ UNCHANGED <<last_recorded, engineVars, compat, rank, modelVars, feat, alerts, serverVars>>

\* predict_from_params(...)
PredictFromParams(out) ==
    /\ \E ready \in ensure_ready(mgr, disk, FacadeSnapshots) :
          /\ mgr' = ready.mgr
          /\ disk' = ready.disk
          /\ resp' = Called("predict_from_params", <<>>, ready) @@
                (IF ready.raised # "" THEN Threw(ready.raised)
                 ELSE LET answer == predict_from_params(ready.mgr, out, Today)
                      IN IF answer.raised # "" THEN Threw(answer.raised)
                         ELSE Gave(answer.result))
    /\ UNCHANGED <<last_recorded, engineVars, compat, rank, modelVars, feat, alerts, serverVars>>

\* match_donors(patient_id, blood_type, top_n)
MatchDonors(patient_id, blood_type, top_n) ==
    /\ \E ready \in ensure_ready(mgr, disk, FacadeSnapshots) :
          /\ mgr' = ready.mgr
          /\ disk' = ready.disk
          /\ IF ready.raised # ""
             THEN resp' = Called("match_donors", <<patient_id, blood_type, top_n>>, ready)
                             @@ Threw(ready.raised)
             ELSE \E result \in match_donors(ready.mgr, patient_id, blood_type,
                                             top_n, Today) :
                     resp' = Called("match_donors", <<patient_id, blood_type, top_n>>, ready)
                                @@ Gave(result)
    /\ UNCHANGED <<last_recorded, engineVars, compat, rank, modelVars, feat, alerts, serverVars>>

\* get_daily_alerts(limit)
ManagerDailyAlerts(limit, out) ==
    /\ \E ready \in ensure_ready(mgr, disk, FacadeSnapshots) :
          /\ mgr' = ready.mgr
          /\ disk' = ready.disk
          /\ IF ready.raised # ""
             THEN resp' = Called("get_daily_alerts", <<limit>>, ready)
                             @@ Threw(ready.raised)
             ELSE \E result \in get_daily_alerts(
                                    alert_system_of(ready.mgr, out),
                                    the(ready.mgr.patients_df), the(ready.mgr.tx_df),
                                    the(ready.mgr.hb_df), the(ready.mgr.donors_df),
                                    limit, Today) :
                     resp' = Called("get_daily_alerts", <<limit>>, ready)
                                @@ Gave(result)
    /\ UNCHANGED <<last_recorded, engineVars, compat, rank, modelVars, feat, alerts, serverVars>>

\* get_model_metrics()
GetModelMetrics ==
    /\ \E ready \in ensure_ready(mgr, disk, FacadeSnapshots) :
          /\ mgr' = ready.mgr
          /\ disk' = ready.disk
          /\ resp' = Called("get_model_metrics", <<>>, ready) @@
                (IF ready.raised # "" THEN Threw(ready.raised)
                 ELSE Gave(get_model_metrics(ready.mgr)))
    /\ UNCHANGED <<last_recorded, engineVars, compat, rank, modelVars, feat, alerts, serverVars>>

\* get_patient_history(patient_id)
GetPatientHistory(patient_id) ==
    /\ \E ready \in ensure_ready(mgr, disk, FacadeSnapshots) :
          /\ mgr' = ready.mgr
          /\ disk' = ready.disk
          /\ resp' = Called("get_patient_history", <<patient_id>>, ready) @@
                (IF ready.raised # "" THEN Threw(ready.raised)
                 ELSE Gave(get_patient_history(ready.mgr, patient_id)))
    /\ UNCHANGED <<last_recorded, engineVars, compat, rank, modelVars, feat, alerts, serverVars>>

\* train_on_synthetic(), called on the manager directly
TrainOnSynthetic(snapshot, outcome) ==
    /\ LET trained == train_on_synthetic(mgr, disk, snapshot, outcome)
       IN /\ mgr' = trained.mgr
          /\ disk' = trained.disk
          /\ resp' = Called("train_on_synthetic", <<>>, [raised |-> ""])
                        @@ Threw(trained.raised)
    /\ UNCHANGED <<last_recorded, engineVars, compat, rank, modelVars, feat, alerts, serverVars>>

\* The process ends and another starts: the module is imported again and
\* line 256 constructs a new manager; the file stays.
NewProcess ==
    /\ mgr.is_ready
    /\ mgr' = new_manager
    /\ resp' = NoCall
    /\ UNCHANGED <<disk, last_recorded, engineVars, compat, rank, modelVars, feat, alerts, serverVars>>

FacadeNext ==
    \/ EnsureReady
    \/ \E p \in FacadePatients, out \in FacadeOutputs : PredictForPatient(p, out)
    \/ \E out \in FacadeOutputs : PredictFromParams(out)
    \/ \E p \in FacadePatients : MatchDonors(p, "O+", MaxTopN)
    \/ \E limit \in {1, 20}, out \in FacadeOutputs : ManagerDailyAlerts(limit, out)
    \/ GetModelMetrics
    \/ \E p \in FacadePatients : GetPatientHistory(p)
    \/ \E snapshot \in FacadeSnapshots, outcome \in TrainOutcomes :
          TrainOnSynthetic(snapshot, outcome)
    \/ NewProcess

FacadeSpec == FacadeInit /\ [][FacadeNext]_vars

-----------------------------------------------------------------------------
(* Claims on FacadeSpec.                                                   *)

\* The last call was of a method that begins with ensure_ready, on a manager
\* that was not ready, and ensure_ready returned.
MadeReady ==
    /\ resp.op \in FacadeOps \cup {"ensure_ready"}
    /\ ~resp.found_ready
    /\ resp.not_ready = ""

\* Every field of m is the file's.
LoadedFrom(m, file) ==
    /\ m.model = file.model
    /\ m.matcher = Some(file.matcher)
    /\ m.alert_system = Some([matcher |-> file.matcher])
    /\ m.patients_df = Some(file.patients_df)
    /\ m.donors_df = Some(file.donors_df)
    /\ m.tx_df = Some(file.tx_df)
    /\ m.hb_df = Some(file.hb_df)
    /\ m.features_df = Some(file.features_df)

\* Every field of m is of one training run on snapshot.
TrainedOn(m, snapshot) ==
    /\ m.model = [is_fitted |-> TRUE, fitted_on |-> Some(snapshot.tx_df)]
    /\ m.patients_df = Some(snapshot.patients_df)
    /\ m.donors_df = Some(snapshot.donors_df)
    /\ m.tx_df = Some(snapshot.tx_df)
    /\ m.hb_df = Some(snapshot.hb_df)
    /\ m.matcher # None
    /\ the(m.matcher).built_from = snapshot.tx_df
    /\ the(m.matcher).exclusion_map = build_exclusion_map(snapshot.tx_df)
    /\ m.alert_system = Some([matcher |-> the(m.matcher)])
    /\ m.features_df # None
    /\ the(m.features_df).built_from.tx_df = snapshot.tx_df
    /\ the(m.features_df).built_from.patients_df = snapshot.patients_df
    /\ the(m.features_df).built_from.hb_df = snapshot.hb_df

\* C21: when ensure_ready returns on a manager that was not ready, the
\* manager is ready; if the file it found was a loadable artifact, every
\* field is the artifact's and the file is as it was; if there was no file,
\* or the load failed at joblib.load or at a missing key, every field is of
\* one training run and the file is the artifact of that run, with nothing
\* of the file that failed to load.
C21_LoadOrTrainFromScratch ==
    MadeReady =>
        /\ mgr.is_ready
        /\ IF resp.found_file.kind = "saved"
           THEN LoadedFrom(mgr, resp.found_file) /\ disk = resp.found_file
           ELSE /\ \E snapshot \in FacadeSnapshots : TrainedOn(mgr, snapshot)
                /\ disk.kind = "saved"
                /\ LoadedFrom(mgr, disk)

\* ensure_ready found a dict that had the model, the matcher and four
\* tables but no features_df, trained on another snapshot and returned.
C21_Witness ==
    /\ MadeReady
    /\ resp.op = "ensure_ready"
    /\ resp.found_file.kind = "incomplete"
    /\ resp.found_file.keys = 6
    /\ mgr.tx_df # Some(resp.found_file.tx_df)

\* The rows of a table for a patient, and the donors of those rows
RowsOf(table, patient_id) == SelectSeq(table, LAMBDA row : row.patient_id = patient_id)
DonorsOf(table, patient_id) ==
    {table[i].donor_id : i \in {k \in DOMAIN table : table[k].patient_id = patient_id}}

TrainingSteps == {"generate_synthetic_data", "fit", "mkdir", "dump"}

\* The last call was of one of the six operations, on a manager that was
\* not ready.
CalledUnready == resp.op \in FacadeOps /\ ~resp.found_ready

\* What the operation returned was read from the manager as it is now.
ReadFromManager ==
    CASE resp.op = "get_model_metrics" ->
            /\ resp.result # <<>>
            /\ resp.result.trained_on = the(mgr.tx_df)
      [] resp.op = "get_patient_history" ->
            /\ resp.result.total_transfusions = Len(RowsOf(the(mgr.tx_df), resp.request[1]))
            /\ resp.result.excluded_donors
                  = get_excluded_donors(the(mgr.matcher).exclusion_map, resp.request[1])
      [] resp.op = "match_donors" ->
            resp.result.excluded_count
               = Cardinality(get_excluded_donors(the(mgr.matcher).exclusion_map,
                                                 resp.request[1]))
      [] resp.op = "get_daily_alerts" ->
            resp.result.total_patients
               = Len(head(the(mgr.patients_df), resp.request[1]))
      [] OTHER -> resp.result.predicted_days >= FLOOR_DAYS

\* C22: a call of one of the six operations on a manager that is not ready
\* either leaves the manager ready, with a fitted model, and its result
\* read from that manager, or raises what the training raised and leaves the
\* manager not ready, so that the next call trains again; it never
\* returns a result when the manager is not ready, and a model that is not
\* fitted never answers.
C22_ReadyBeforeRead ==
    CalledUnready =>
        IF resp.not_ready = ""
        THEN /\ mgr.is_ready
             /\ mgr.model.is_fitted
             /\ resp.raised # "RuntimeError"
             /\ resp.raised = "" => ReadFromManager
        ELSE /\ resp.not_ready \in TrainingSteps
             /\ resp.raised = resp.not_ready
             /\ "result" \notin DOMAIN resp
             /\ ~mgr.is_ready

\* The training of an earlier call raised after it had assigned the tables
\* and left the manager not ready; this call trained again, on another
\* snapshot, and returned the history read from it.
C22_Witness ==
    /\ CalledUnready
    /\ resp.op = "get_patient_history"
    /\ resp.found_tx_df # None
    /\ resp.not_ready = ""
    /\ mgr.tx_df # resp.found_tx_df
    /\ resp.result.total_transfusions = 2

\* The patients of the manager's patient table
KnownPatients(m) == {the(m.patients_df)[i].patient_id : i \in DOMAIN the(m.patients_df)}

\* C25: predict_for_patient, match_donors and get_patient_history raise for
\* a patient_id that is not in the manager's patient table; none of them
\* returns a result for it.
C25_UnknownPatientRaises ==
    (/\ resp.op \in {"predict_for_patient", "match_donors", "get_patient_history"}
     /\ resp.not_ready = ""
     /\ resp.request[1] \notin KnownPatients(mgr))
        => resp.raised # ""

\* The last call ran a training that returned.
TrainedNow ==
    \/ resp.op = "train_on_synthetic" /\ resp.raised = ""
    \/ MadeReady /\ resp.found_file.kind # "saved"

\* C26: when a training has returned, the file is a saved artifact, and a
\* new manager that calls ensure_ready with that file becomes ready without
\* training, with the model, the matcher and the tables equal to the
\* trainer's, the same excluded donors for every patient and the same
\* metrics; and a training that raises while writing the file does not make
\* a manager ready.
C26_SaveThenLoadRoundTrip ==
    /\ TrainedNow =>
          /\ mgr.is_ready
          /\ disk.kind = "saved"
          /\ \A loaded \in ensure_ready(new_manager, disk, FacadeSnapshots) :
                /\ loaded.raised = ""
                /\ loaded.disk = disk
                /\ loaded.mgr.is_ready
                /\ loaded.mgr.model = mgr.model
                /\ loaded.mgr.model.is_fitted
                /\ loaded.mgr.matcher = mgr.matcher
                /\ loaded.mgr.patients_df = mgr.patients_df
                /\ loaded.mgr.donors_df = mgr.donors_df
                /\ loaded.mgr.tx_df = mgr.tx_df
                /\ loaded.mgr.hb_df = mgr.hb_df
                /\ loaded.mgr.features_df = mgr.features_df
                /\ get_model_metrics(loaded.mgr) = get_model_metrics(mgr)
                /\ \A p \in FacadePatients :
                      excluded_donors_of(loaded.mgr, p) = excluded_donors_of(mgr, p)
    /\ (resp.op \in FacadeOps \cup {"ensure_ready", "train_on_synthetic"}
          /\ ~resp.found_ready /\ resp.raised \in {"mkdir", "dump"})
          => ~mgr.is_ready

\* A training on a ready manager returned and wrote a file other than the
\* one it found.
C26_Witness ==
    /\ resp.op = "train_on_synthetic"
    /\ resp.raised = ""
    /\ resp.found_ready
    /\ resp.found_file.kind = "saved"
    /\ disk # resp.found_file
    /\ mgr.is_ready

-----------------------------------------------------------------------------
(* ThreadSpec: the route handlers are plain functions, which the server    *)
(* runs on the threads of a pool, and they share the manager singleton,    *)
(* which has no lock.  A thread runs one call at a time; each action is    *)
(* one statement of ensure_ready, train_on_synthetic or                    *)
(* get_patient_history, named by its line, and the statements of the       *)
(* threads interleave.  A frame holds the method a thread is in, the line  *)
(* it is at, its locals, and what the call returned.  No statement raises  *)
(* here.                                                                   *)

Threads == {1, 2}

ThreadOps == {"ensure_ready", "get_patient_history", "train_on_synthetic"}

\* A thread that is in no call and has returned from none.
idle_frame ==
    [op |-> "none", pc |-> "idle", patient_id |-> "", saved |-> None,
     snapshot |-> None, tx |-> None, trained |-> 0, result |-> None]

\* The statements of lines 60-66 and of lines 85-99, in order
LoadLines == <<"60", "61", "62", "63", "64", "65", "66">>
TrainLines == <<"85", "86", "87", "88", "91", "94", "97", "99">>

\* The line after a line of a sequence of lines, last after its last one
next_line(at, lines_of, last) ==
    LET k == CHOOSE i \in DOMAIN lines_of : lines_of[i] = at
    IN IF k = Len(lines_of) THEN last ELSE lines_of[k + 1]

\* The line a thread is at when ensure_ready or train_on_synthetic returns
\* to the method that called it.
after_ready(frame) ==
    IF frame.op = "get_patient_history" THEN "232" ELSE "idle"

\* The manager after the statement at a line of 60-66 for the loaded dict
load_line(m, saved, at) ==
    CASE at = "60" -> [m EXCEPT !.model = saved.model]
      [] at = "61" -> [m EXCEPT !.matcher = Some(saved.matcher)]
      [] at = "62" -> [m EXCEPT !.patients_df = Some(saved.patients_df)]
      [] at = "63" -> [m EXCEPT !.donors_df = Some(saved.donors_df)]
      [] at = "64" -> [m EXCEPT !.tx_df = Some(saved.tx_df)]
      [] at = "65" -> [m EXCEPT !.hb_df = Some(saved.hb_df)]
      [] at = "66" -> [m EXCEPT !.features_df = Some(saved.features_df)]

\* The manager after the statement at a line of 85-99 for the generated
\* snapshot: the feature table and the matcher are built from the locals,
\* fit (line 94) is given the manager's feature table and works on the
\* model object the manager holds, and the alert system is built on the
\* manager's matcher.
train_line(m, snapshot, at) ==
    CASE at = "85" -> [m EXCEPT !.patients_df = Some(snapshot.patients_df)]
      [] at = "86" -> [m EXCEPT !.donors_df = Some(snapshot.donors_df)]
      [] at = "87" -> [m EXCEPT !.tx_df = Some(snapshot.tx_df)]
      [] at = "88" -> [m EXCEPT !.hb_df = Some(snapshot.hb_df)]
      [] at = "91" -> [m EXCEPT !.features_df = Some(features_of(snapshot))]
      [] at = "94" -> [m EXCEPT !.model =
                          fitted_model(the(m.features_df).built_from.tx_df)]
      [] at = "97" -> [m EXCEPT !.matcher = Some(new_matcher(snapshot.tx_df))]
      [] at = "99" -> [m EXCEPT !.alert_system =
                          Some(new_alert_system(the(m.matcher)))]

ThreadInit ==
    /\ mgr = new_manager
    /\ disk \in {NoFile} \cup SavedArtifacts
    /\ threads = [t \in Threads |-> idle_frame]
    /\ last_recorded = <<>>
    /\ resp = NoCall
    /\ db = NoCall
    /\ IdleEngine
    /\ IdleCompat
    /\ IdleRank
    /\ IdleModel
    /\ IdleFeatures
    /\ IdleAlerts

At(t, line) == threads[t].pc = line

\* The thread goes on at a line; at "idle" its call has returned and the
\* locals are gone.
Goto(t, line) ==
    threads' = [threads EXCEPT ![t] =
                   IF line = "idle"
                   THEN [@ EXCEPT !.pc = line, !.saved = None, !.snapshot = None,
                                  !.tx = None]
                   ELSE [@ EXCEPT !.pc = line]]
ThreadSame == UNCHANGED <<last_recorded, resp, db, engineVars, compat, rank, modelVars, feat, alerts>>

\* A request arrives and the pool gives its handler to a thread.
Call(t, op, patient_id) ==
    /\ At(t, "idle")
    /\ threads' = [threads EXCEPT ![t] =
                      [idle_frame EXCEPT !.op = op, !.patient_id = patient_id,
                                         !.pc = IF op = "train_on_synthetic"
                                                THEN "81" ELSE "53"]]
    /\ UNCHANGED <<mgr, disk>>
    /\ ThreadSame

\* Lines 53-54: if self._is_ready: return
Line53(t) ==
    /\ At(t, "53")
    /\ Goto(t, IF mgr.is_ready THEN after_ready(threads[t]) ELSE "57")
    /\ UNCHANGED <<mgr, disk>>
    /\ ThreadSame

\* Lines 57-59 and 73-76: the file is loaded if there is one joblib can
\* load; otherwise train_on_synthetic is called.
Line57(t) ==
    /\ At(t, "57")
    /\ threads' = [threads EXCEPT ![t] =
                      IF disk.kind = "saved"
                      THEN [@ EXCEPT !.saved = Some(disk), !.pc = "60"]
                      ELSE [@ EXCEPT !.pc = "81"]]
    /\ UNCHANGED <<mgr, disk>>
    /\ ThreadSame

\* One of lines 60-66
LoadLine(t) ==
    /\ \E at \in {LoadLines[i] : i \in DOMAIN LoadLines} :
          /\ At(t, at)
          /\ mgr' = load_line(mgr, the(threads[t].saved), at)
          /\ Goto(t, next_line(at, LoadLines, "67"))
    /\ UNCHANGED disk
    /\ ThreadSame

\* Lines 67-69
Line67(t) ==
    /\ At(t, "67")
    /\ mgr' = [mgr EXCEPT !.alert_system = Some(new_alert_system(the(mgr.matcher)))]
    /\ Goto(t, "70")
    /\ UNCHANGED disk
    /\ ThreadSame

\* Lines 70-72
Line70(t) ==
    /\ At(t, "70")
    /\ mgr' = [mgr EXCEPT !.is_ready = TRUE]
    /\ Goto(t, after_ready(threads[t]))
    /\ UNCHANGED disk
    /\ ThreadSame

\* Lines 81-83: the generator returns a snapshot; the frame counts the
\* trainings the call has begun.
Line81(t, snapshot) ==
    /\ At(t, "81")
    /\ threads' = [threads EXCEPT ![t].snapshot = Some(snapshot),
                                  ![t].trained = 1, ![t].pc = "85"]
    /\ UNCHANGED <<mgr, disk>>
    /\ ThreadSame

\* One of lines 85-99
TrainLine(t) ==
    /\ \E at \in {TrainLines[i] : i \in DOMAIN TrainLines} :
          /\ At(t, at)
          /\ mgr' = train_line(mgr, the(threads[t].snapshot), at)
          /\ Goto(t, next_line(at, TrainLines, "105"))
    /\ UNCHANGED disk
    /\ ThreadSame

\* Lines 104-114: the dict is made of the manager's fields as they are now.
Line105(t) ==
    /\ At(t, "105")
    /\ disk' = saved_artifact(mgr)
    /\ Goto(t, "116")
    /\ UNCHANGED mgr
    /\ ThreadSame

\* Line 116
Line116(t) ==
    /\ At(t, "116")
    /\ mgr' = [mgr EXCEPT !.is_ready = TRUE]
    /\ Goto(t, after_ready(threads[t]))
    /\ UNCHANGED disk
    /\ ThreadSame

\* Line 232: tx = self._tx_df[self._tx_df["patient_id"] == patient_id]
Line232(t) ==
    /\ At(t, "232")
    /\ threads' = [threads EXCEPT
                      ![t].tx = Some(SelectSeq(the(mgr.tx_df),
                                        LAMBDA row : row.patient_id = threads[t].patient_id)),
                      ![t].pc = "233"]
    /\ UNCHANGED <<mgr, disk>>
    /\ ThreadSame

\* Lines 233-251: the exclusions are read from the matcher and the dict is
\* returned.
Line233(t) ==
    /\ At(t, "233")
    /\ LET tx == the(threads[t].tx)
       IN threads' = [threads EXCEPT
              ![t].result =
                  Some([patient_id |-> threads[t].patient_id,
                        transfusions |-> [i \in DOMAIN tx |-> [donor_id |-> tx[i].donor_id]],
                        excluded_donors |-> excluded_donors_of(mgr, threads[t].patient_id),
                        total_transfusions |-> Len(tx)]),
              ![t].pc = "idle", ![t].saved = None, ![t].snapshot = None,
              ![t].tx = None]
    /\ UNCHANGED <<mgr, disk>>
    /\ ThreadSame

ThreadNext ==
    \E t \in Threads :
       \/ \E op \in ThreadOps : Call(t, op, "PT0000")
       \/ Line53(t)
       \/ Line57(t)
       \/ LoadLine(t)
       \/ Line67(t)
       \/ Line70(t)
       \/ \E snapshot \in FacadeSnapshots : Line81(t, snapshot)
       \/ TrainLine(t)
       \/ Line105(t)
       \/ Line116(t)
       \/ Line232(t)
       \/ Line233(t)

ThreadSpec == ThreadInit /\ [][ThreadNext]_vars

-----------------------------------------------------------------------------
(* Claims on ThreadSpec.                                                   *)

\* The lines of train_on_synthetic
InTraining(t) ==
    threads[t].pc \in {TrainLines[i] : i \in DOMAIN TrainLines} \cup {"105", "116"}

\* C24: while another thread is in a train_on_synthetic that a POST /train
\* called, a get_patient_history that returns has read the transfusions
\* and the exclusions of one artifact: the excluded donors are the donors of
\* the transfusions it lists.
C24_ReaderSeesOneArtifact ==
    \A t, u \in Threads :
       (/\ threads[t].op = "get_patient_history"
        /\ threads[t].result # None
        /\ threads[u].op = "train_on_synthetic"
        /\ InTraining(u))
          => LET result == the(threads[t].result)
             IN result.excluded_donors
                   = {result.transfusions[i].donor_id : i \in DOMAIN result.transfusions}

\* C30: of the calls of ensure_ready that are in progress or were the last
\* of their thread, at most one has begun a training.
C30_OneTrainingForConcurrentCallers ==
    Cardinality({t \in Threads : /\ threads[t].op \in {"ensure_ready", "get_patient_history"}
                                 /\ threads[t].trained = 1}) <= 1

-----------------------------------------------------------------------------
(* ThalSpec: the /thal routes on the tables patients, donors and matches.  *)
(* The handlers are plain functions that run on the threads of the pool;   *)
(* each query is one step of its handler, and the table is what the        *)
(* queries of thal.py read and write: select returns the rows that pass    *)
(* its filters, insert appends the row it is given.  No route deletes or   *)
(* updates a row of matches.  A frame holds the handler a thread is in,    *)
(* the query it is at, the request and the response.                       *)

MaxMatchRows == 3   \* rows of the matches table

\* select(...).eq("request_id", patient_id).eq("module", "thal") on matches
thal_rows_of(matches, patient_id) ==
    SelectSeq(matches, LAMBDA row : row.request_id = patient_id /\ row.module = "thal")

\* Lines 355-360: the rows of the pair
existing_rows(matches, patient_id, donor_id) ==
    SelectSeq(thal_rows_of(matches, patient_id), LAMBDA row : row.donor_id = donor_id)

\* Lines 372-378: the row assign_thal_donor inserts; the table numbers its
\* rows.
assigned_row(matches, patient_id, donor_id) ==
    [id |-> Len(matches) + 1, request_id |-> patient_id, donor_id |-> donor_id,
     module |-> "thal", status |-> "pending"]

\* Lines 148-156
used_donor_ids(matches, patient_id) ==
    LET past == thal_rows_of(matches, patient_id)
    IN {past[i].donor_id : i \in DOMAIN past}

\* Lines 159-163: the donors that are available and verified
listed_donors(donors) ==
    SelectSeq(donors, LAMBDA d : d.is_available /\ d.is_verified)

\* Line 186: sort(key=trust_score, reverse=True); the sort keeps donors of
\* equal trust in the order of the list.
sort_by_trust(eligible) ==
    LET before(i, j) ==
            \/ eligible[i].trust_score > eligible[j].trust_score
            \/ eligible[i].trust_score = eligible[j].trust_score /\ i < j
        perm == CHOOSE q \in Perms(DOMAIN eligible) :
                    \A a, b \in DOMAIN eligible : a < b => before(q[a], q[b])
    IN [i \in DOMAIN eligible |-> eligible[perm[i]]]

\* A filter without the test of line 171.
eligible_any_history(donors, used, blood_group) ==
    LET kept == SelectSeq(donors, LAMBDA d : blood_compatible(d.blood_group, blood_group))
    IN [i \in DOMAIN kept |->
           [donor_id |-> kept[i].id, blood_group |-> kept[i].blood_group,
            trust_score |-> kept[i].trust_score, is_verified |-> kept[i].is_verified]]

\* Lines 168-183: the donors of the query that are not used and are of a
\* group the patient can receive
eligible(donors, used, blood_group) ==
    LET kept == SelectSeq(donors,
                    LAMBDA d : /\ d.id \notin used
                               /\ blood_compatible(d.blood_group, blood_group))
    IN [i \in DOMAIN kept |->
           [donor_id |-> kept[i].id, blood_group |-> kept[i].blood_group,
            trust_score |-> kept[i].trust_score, is_verified |-> kept[i].is_verified]]

\* Lines 188-198: of the response the patient, the count of excluded donors
\* and the matches.
thal_matches_response(patient_id, blood_group, used, matches) ==
    [status |-> 200, patient_id |-> patient_id, blood_group |-> blood_group,
     excluded_donors |-> Cardinality(used), matches |-> matches]

ThalPatients ==
    <<[id |-> "P1", blood_group |-> "A+"], [id |-> "P2", blood_group |-> "O-"]>>

ThalDonor(id, blood_group, trust_score) ==
    [id |-> id, blood_group |-> blood_group, trust_score |-> trust_score,
     is_available |-> TRUE, is_verified |-> TRUE]

\* Donor tables: three donors that are available and verified, of whom one
\* has a group an A+ patient cannot receive, and a fourth that may be
\* unavailable or not verified.
ThalDonorTables ==
    {<<ThalDonor("D1", "O-", 50), ThalDonor("D2", "A+", 80), ThalDonor("D3", "B+", 90),
       [ThalDonor("D4", "O-", 70) EXCEPT !.is_available = a, !.is_verified = v]>> :
        a, v \in BOOLEAN}

\* The matches table a server may start with: no row, a row of an earlier
\* cycle of P1 with D1, or a row of another module for the same ids.
StartMatches ==
    {<<>>,
     <<[id |-> 1, request_id |-> "P1", donor_id |-> "D1", module |-> "thal",
        status |-> "completed"]>>,
     <<[id |-> 1, request_id |-> "P1", donor_id |-> "D1", module |-> "blood",
        status |-> "pending"]>>}

\* A thread in no handler.  A frame of get_thal_matches keeps the matches
\* table as it was when the request arrived, besides the locals patient
\* and used_donor_ids.
thal_idle ==
    [op |-> "none", pc |-> "idle", request |-> <<>>, arrived |-> None,
     patient |-> None, used |-> None, response |-> None]

ThalInit ==
    /\ db \in [patients : {ThalPatients}, donors : ThalDonorTables,
               matches : StartMatches]
    /\ threads = [t \in Threads |-> thal_idle]
    /\ IdleEngine
    /\ IdleCompat
    /\ IdleRank
    /\ IdleModel
    /\ IdleManager
    /\ IdleFeatures
    /\ IdleAlerts

ThalSame == UNCHANGED <<engineVars, compat, rank, modelVars, managerVars, feat, alerts>>

\* The assignments that have passed their check and not yet inserted
Inserting == {t \in Threads : threads[t].pc = "372"}

\* The thread returns a response; the locals are gone.
thal_return(frame, response) ==
    [frame EXCEPT !.pc = "idle", !.patient = None, !.used = None,
                  !.response = Some(response)]

\* GET /thal/patients/{patient_id}/matches arrives.
GetThalMatches(t, patient_id) ==
    /\ threads[t].pc = "idle"
    /\ threads' = [threads EXCEPT ![t] =
                      [thal_idle EXCEPT !.op = "get_thal_matches", !.pc = "125",
                                        !.request = <<patient_id>>,
                                        !.arrived = Some(db.matches)]]
    /\ UNCHANGED db
    /\ ThalSame

\* Lines 125-136: the patient is loaded; 404 if there is none
LoadPatient(t) ==
    /\ threads[t].pc = "125"
    /\ LET patient_res == SelectSeq(db.patients, LAMBDA p : p.id = threads[t].request[1])
       IN threads' = [threads EXCEPT ![t] =
                         IF patient_res = <<>>
                         THEN thal_return(@, [status |-> 404])
                         ELSE [@ EXCEPT !.patient = Some(patient_res[1]), !.pc = "148"]]
    /\ UNCHANGED db
    /\ ThalSame

\* Lines 148-156: the donors of the patient's rows in matches
CollectUsed(t) ==
    /\ threads[t].pc = "148"
    /\ threads' = [threads EXCEPT
                      ![t].used = Some(used_donor_ids(db.matches, threads[t].request[1])),
                      ![t].pc = "159"]
    /\ UNCHANGED db
    /\ ThalSame

\* Lines 159-198: the donors are queried, filtered and sorted
ListEligible(t) ==
    /\ threads[t].pc = "159"
    /\ LET blood_group == the(threads[t].patient).blood_group
           used == the(threads[t].used)
       IN threads' = [threads EXCEPT ![t] =
              thal_return(@, thal_matches_response(
                                 threads[t].request[1], blood_group, used,
                                 sort_by_trust(eligible(listed_donors(db.donors),
                                                        used, blood_group))))]
    /\ UNCHANGED db
    /\ ThalSame

\* POST /thal/assign-donor arrives, while the table has room for its row.
AssignThalDonor(t, patient_id, donor_id) ==
    /\ threads[t].pc = "idle"
    /\ Len(db.matches) + Cardinality(Inserting) < MaxMatchRows
    /\ threads' = [threads EXCEPT ![t] =
                      [thal_idle EXCEPT !.op = "assign_thal_donor", !.pc = "355",
                                        !.request = <<patient_id, donor_id>>]]
    /\ UNCHANGED db
    /\ ThalSame

\* Lines 355-369: the select, and the 409 if it returns a row
AssignCheck(t) ==
    /\ threads[t].pc = "355"
    /\ threads' = [threads EXCEPT ![t] =
          IF existing_rows(db.matches, threads[t].request[1], threads[t].request[2]) # <<>>
          THEN [@ EXCEPT !.pc = "idle", !.response = Some([status |-> 409])]
          ELSE [@ EXCEPT !.pc = "372"]]
    /\ UNCHANGED db
    /\ ThalSame

\* Lines 372-387: the insert returns the row it inserted
AssignInsert(t) ==
    /\ threads[t].pc = "372"
    /\ LET row == assigned_row(db.matches, threads[t].request[1], threads[t].request[2])
       IN /\ db' = [db EXCEPT !.matches = Append(@, row)]
          /\ threads' = [threads EXCEPT
                            ![t].pc = "idle",
                            ![t].response = Some([status |-> 200, success |-> TRUE,
                                                  match_id |-> row.id])]
    /\ ThalSame

ThalNext ==
    \E t \in Threads :
       \/ \E p \in {"P1", "P2", UnknownPatient} : GetThalMatches(t, p)
       \/ LoadPatient(t)
       \/ CollectUsed(t)
       \/ ListEligible(t)
       \/ \E d \in {"D1", "D2"} : AssignThalDonor(t, "P1", d)
       \/ AssignCheck(t)
       \/ AssignInsert(t)

ThalSpec == ThalInit /\ [][ThalNext]_vars

-----------------------------------------------------------------------------
(* Claims on ThalSpec.                                                     *)

\* The thal rows of the matches table for a patient and a donor
PairRows(table, patient_id, donor_id) ==
    {k \in DOMAIN table : /\ table[k].request_id = patient_id
                          /\ table[k].donor_id = donor_id
                          /\ table[k].module = "thal"}

ThalPairs == {"P1", "P2", UnknownPatient} \X {"D1", "D2", "D3", "D4"}

\* C27: the matches table holds at most one thal row for a patient and a
\* donor.
C27_OneRowPerPair ==
    \A pair \in ThalPairs : Cardinality(PairRows(db.matches, pair[1], pair[2])) <= 1

\* The donor row of an id
DonorRow(id) == CHOOSE d \in {db.donors[i] : i \in DOMAIN db.donors} : d.id = id
PatientRow(id) == CHOOSE p \in {db.patients[i] : i \in DOMAIN db.patients} : p.id = id

\* C28: a get_thal_matches response lists no donor who had a thal row for
\* the patient, of whatever status, when the request arrived, so none whom
\* assign-donor had assigned by then; every donor it lists is available,
\* verified and of a group the patient can receive.
C28_ListsOnlyNewEligibleDonors ==
    \A t \in Threads :
       (/\ threads[t].op = "get_thal_matches"
        /\ threads[t].response # None
        /\ the(threads[t].response).status = 200)
          => LET response == the(threads[t].response)
                 patient_id == threads[t].request[1]
             IN \A i \in DOMAIN response.matches :
                   LET donor_id == response.matches[i].donor_id
                   IN /\ PairRows(the(threads[t].arrived), patient_id, donor_id) = {}
                      /\ DonorRow(donor_id).is_available
                      /\ DonorRow(donor_id).is_verified
                      /\ DonorRow(donor_id).blood_group
                            \in COMPATIBLE[PatientRow(patient_id).blood_group]

\* assign-donor had assigned D2 to P1 when a request for P1 arrived, and the
\* response lists D1 and not D2, who is available, verified and of P1's
\* group.
C28_Witness ==
    \E t \in Threads :
       /\ threads[t].op = "get_thal_matches"
       /\ threads[t].request = <<"P1">>
       /\ threads[t].response # None
       /\ \E k \in PairRows(the(threads[t].arrived), "P1", "D2") :
             the(threads[t].arrived)[k].status = "pending"
       /\ the(threads[t].response).status = 200
       /\ the(threads[t].response).excluded_donors = 1
       /\ \A i \in DOMAIN the(threads[t].response).matches :
             the(threads[t].response).matches[i].donor_id # "D2"
       /\ \E i \in DOMAIN the(threads[t].response).matches :
             the(threads[t].response).matches[i].donor_id = "D1"

=============================================================================
